---- MODULE Spec2Model ----
(***************************************************************************)
(* The agent orchestration layer of the UI/UX research agent:             *)
(*   uiux-agent/agent.py      run_agent (the loop) and execute_tool       *)
(*   uiux-agent/providers.py  the three provider adapters                 *)
(*   uiux-agent/tools.py      the tools the loop dispatches to            *)
(*                                                                         *)
(* Python strings are TLA+ strings (concatenation is \o), a dict is a     *)
(* function whose DOMAIN is its key set, a list is a sequence, and an     *)
(* object's attributes are the fields of a record (hasattr(b, "text") is  *)
(* "text" \in DOMAIN b).  A raised exception is the value Raise(kind).    *)
(***************************************************************************)
EXTENDS Integers, Sequences, FiniteSets, TLC

VARIABLES
    provider,        \* the adapter bound to the run (agent.py:216, get_provider)
    fs,              \* the filesystem the tools see: path |-> content
    pc,              \* where run_agent stands
    messages,        \* run_agent's conversation (agent.py:93)
    iteration,       \* run_agent's counter (agent.py:109)
    response,        \* the last value provider.chat returned (agent.py:119)
    block,           \* index, in response.content, of the block being executed
    tool_results,    \* the list built by the for loop (agent.py:145)
    result,          \* what run_agent returned, or the exception it let through
    adapterCalls,    \* provider.chat calls started
    adapterReturns,  \* provider.chat calls that came back (returned or raised)
    toolCalls,       \* execute_tool calls started
    toolReturns,     \* execute_tool calls that came back (returned or raised)
    varied,          \* replies consumed so far that were not the routine one
    written,         \* the write_file calls made directly: arguments and effect
    received,        \* the vendor's reply to the last request (providers.py:40, 127, 251)
    sent,            \* the last request chat() built for the vendor
    tools,           \* the tool catalogue chat() is given (agent.py:122)
    argv,            \* the command line: provider name and --interactive (agent.py:213)
    stdin,           \* the lines still to be typed at the prompt (agent.py:224)
    task             \* the task of the run (agent.py:224, 249)

vars == <<provider, fs, pc, messages, iteration, response, block, tool_results,
          result, adapterCalls, adapterReturns, toolCalls, toolReturns, varied,
          written, received, sent, tools, argv, stdin, task>>

-----------------------------------------------------------------------------
(* Bounds of the model and constants of the program.                       *)

\* At most this many replies of one run differ from the routine tool request.
MaxVaried == 1

\* At most this many write_file calls are made in a row on one filesystem.
MaxWrites == 3

\* agent.py:110
max_iterations == 15

\* tools.py:18 and tools.py:118: the caps of read_file and fetch_url.
ReadFileCap == 10000
FetchUrlCap == 5000
\* tools.py:41 and tools.py:86: entries list_files and search_web keep.
ListFilesCap == 50
SearchResultsCap == 5

-----------------------------------------------------------------------------
(* Values.                                                                  *)

\* What a call produces: the value it returns, or the exception it raises.
Return(value) == [kind |-> "return", value |-> value]

Raise(exception) == [kind |-> "raise", value |-> exception]

IsRaise(outcome) == outcome.kind = "raise"

\* dict literals: the empty dict
EmptyDict == [k \in {} |-> ""]

\* providers.py:290-293
TextBlock(text) == [type |-> "text", text |-> text]

\* providers.py:296-301
ToolUseBlock(id, name, input) ==
    [type |-> "tool_use", id |-> id, name |-> name, input |-> input]

\* agent.py:147: hasattr(block, 'type') and block.type == "tool_use"
IsToolUse(b) == "type" \in DOMAIN b /\ b.type = "tool_use"

\* agent.py:129: hasattr(block, "text")
HasText(b) == "text" \in DOMAIN b

\* The positions, from i on, of the tool_use blocks of a content list, in list
\* order: the blocks the for loop of agent.py:146-147 acts on.
RECURSIVE ToolUseFrom(_, _)
ToolUseFrom(content, i) ==
    IF i > Len(content) THEN <<>>
    ELSE (IF IsToolUse(content[i]) THEN <<i>> ELSE <<>>) \o ToolUseFrom(content, i + 1)

ToolUseIdx(content) == ToolUseFrom(content, 1)

\* Whether string t occurs in string s (Python's `t in s`).
Contains(s, t) ==
    \E i \in 1 .. (Len(s) - Len(t) + 1) : SubSeq(s, i, i + Len(t) - 1) = t

-----------------------------------------------------------------------------
(* tools.py: the tools, over the filesystem fs and a fixed outside world.   *)

\* A text of n characters.
RECURSIVE Filler(_)
Filler(n) ==
    IF n = 0 THEN ""
    ELSE IF n % 2 = 1 THEN "x" \o Filler(n - 1)
    ELSE LET half == Filler(n \div 2) IN half \o half

\* The i-th file of a directory of many pages; the names are of one length,
\* so that their numbers order them as Python's string order does.
PagePath(i) == "proj/pages/p" \o ToString(100 + i) \o ".tsx"

\* The files present when the process starts.
InitialFiles ==
    [p \in {"proj/App.tsx", "proj/card.tsx", "proj/card.new.tsx"} |->
        CASE p = "proj/App.tsx" -> "export default App"
          [] p = "proj/card.tsx" -> "<Card/>"
          [] OTHER -> "<Card draft/>"]

\* The directories present besides the working directory (none is created or
\* removed by the modelled calls: every path written lies in one of them or in
\* the working directory).
Dirs == {"proj"}

\* The pages the network serves: url |-> the text BeautifulSoup extracts.
\* Any other url fails to connect.
Pages ==
    [u \in {"https://ok.example", "https://docs.example/at-cap",
            "https://docs.example/over-cap", "https://docs.example/long"} |->
        CASE u = "https://ok.example" -> "Use spring physics."
          [] u = "https://docs.example/at-cap" -> Filler(FetchUrlCap)
          [] u = "https://docs.example/over-cap" -> Filler(FetchUrlCap + 1)
          [] OTHER -> Filler(2 * ReadFileCap + 5)]

\* The search results DuckDuckGo serves: query |-> <<title, snippet>> pairs.
\* A query outside the domain is a request that fails.
SearchHits ==
    [q \in {"card animations", "zzz", "grid", "flexbox", "design systems"} |->
        CASE q = "card animations"
               -> << <<"Motion", "layout animations">>, <<"CSS", "">> >>
          [] q = "grid"
               -> [i \in 1 .. SearchResultsCap |-> <<"Grid " \o ToString(i), "tracks">>]
          [] q = "flexbox"
               -> [i \in 1 .. SearchResultsCap + 1 |-> <<"Flex " \o ToString(i), "axes">>]
          [] q = "design systems"
               -> << <<"Tokens", Filler(2 * ReadFileCap + 5)>> >>
          [] OTHER -> << >>]

\* Every path the model can hold, in Python's string order (sorted() of
\* tools.py:41 is the restriction of this order to the files listed).
NameOrder ==
    << "proj/App.tsx", "proj/card.new.tsx", "proj/card.new2.tsx",
       "proj/card.new3.tsx", "proj/card.new4.tsx", "proj/card.tsx",
       "proj/hero.new.tsx", "proj/hero.new2.tsx", "proj/hero.tsx" >>
    \o [i \in 1 .. ListFilesCap + 10 |-> PagePath(i)]

\* Path.exists()
Exists(files, path) == path \in DOMAIN files \/ path \in Dirs

\* The last position of character c in s, 0 when there is none (str.rfind + 1).
RECURSIVE RFind(_, _, _)
RFind(s, c, i) ==
    IF i = 0 THEN 0
    ELSE IF SubSeq(s, i, i) = c THEN i
    ELSE RFind(s, c, i - 1)

\* PurePath.name: what follows the last "/".
PathName(path) == SubSeq(path, RFind(path, "/", Len(path)) + 1, Len(path))

\* PurePath.parent, as the prefix that `parent / x` puts before x.
PathParentPrefix(path) == SubSeq(path, 1, RFind(path, "/", Len(path)))

\* PurePath.suffix: from the last "." of the name on, unless that dot opens or
\* ends the name.
PathSuffix(path) ==
    LET name == PathName(path)
        i == RFind(name, ".", Len(name))
    IN  IF 1 < i /\ i < Len(name) THEN SubSeq(name, i, Len(name)) ELSE ""

\* PurePath.stem: the name without its suffix.
PathStem(path) ==
    LET name == PathName(path)
    IN  SubSeq(name, 1, Len(name) - Len(PathSuffix(path)))

\* A numbering that takes <stem>.new<counter><suffix> without looking.
NumberedNewUnprobed(files, path, counter) ==
    PathParentPrefix(path) \o PathStem(path) \o ".new" \o ToString(counter)
    \o PathSuffix(path)

\* tools.py:59-62: the first of <stem>.new2<suffix>, <stem>.new3<suffix>, ...
\* that does not exist.
RECURSIVE NumberedNew(_, _, _)
NumberedNew(files, path, counter) ==
    LET new_path == PathParentPrefix(path) \o PathStem(path) \o ".new"
                    \o ToString(counter) \o PathSuffix(path)
    IN  IF Exists(files, new_path) THEN NumberedNew(files, path, counter + 1)
        ELSE new_path

\* A redirect that numbers from the first sibling on: <stem>.new2<suffix> first.
WriteTargetNumbered(files, file_path) ==
    IF Exists(files, file_path) THEN NumberedNew(files, file_path, 2)
    ELSE file_path

\* tools.py:49-64: the path write_file writes.
WriteTarget(files, file_path) ==
    IF Exists(files, file_path)
    THEN LET new_path == PathParentPrefix(file_path) \o PathStem(file_path)
                         \o ".new" \o PathSuffix(file_path)
         IN  IF Exists(files, new_path) THEN NumberedNew(files, file_path, 2)
             ELSE new_path
    ELSE file_path

\* tools.py:46-70.  The paths of the model lie in an existing directory, so
\* mkdir(exist_ok=True) and write_text succeed and the except branch of
\* tools.py:69 is not taken.
write_file(files, file_path, content) ==
    LET path == WriteTarget(files, file_path)
    IN  "Successfully wrote to " \o path

\* A write that opens the requested path whether or not it exists.
write_file_fs_overwrite(files, file_path, content) ==
    [p \in DOMAIN files \cup {file_path} |->
        IF p = file_path THEN content ELSE files[p]]

\* The filesystem after write_file(file_path, content).
write_file_fs(files, file_path, content) ==
    LET path == WriteTarget(files, file_path)
    IN  [p \in DOMAIN files \cup {path} |-> IF p = path THEN content ELSE files[p]]

\* tools.py:10-22
read_file(files, file_path) ==
    IF ~Exists(files, file_path)
    THEN "Error: File " \o file_path \o " not found"
    ELSE IF file_path \in Dirs
    THEN "Error reading file: IsADirectoryError"
    ELSE LET content == files[file_path]
         IN  IF Len(content) > ReadFileCap
             THEN SubSeq(content, 1, ReadFileCap) \o "\n\n... [truncated]"
             ELSE content

\* "\n".join(xs)
RECURSIVE Join(_, _)
Join(xs, sep) ==
    IF xs = <<>> THEN ""
    ELSE IF Len(xs) = 1 THEN xs[1]
    ELSE xs[1] \o sep \o Join(Tail(xs), sep)

\* xs[:n]
Take(xs, n) == SubSeq(xs, 1, IF Len(xs) < n THEN Len(xs) ELSE n)

\* The elements of the sorted sequence `order` that satisfy membership in S.
RECURSIVE SortedIn(_, _)
SortedIn(order, S) ==
    IF order = <<>> THEN <<>>
    ELSE (IF Head(order) \in S THEN <<Head(order)>> ELSE <<>>)
         \o SortedIn(Tail(order), S)

\* p.relative_to(directory) for a path p under directory
RelativeTo(p, directory) == SubSeq(p, Len(directory) + 2, Len(p))

\* whether path p lies under directory
Under(p, directory) ==
    Len(p) > Len(directory) + 1 /\ SubSeq(p, 1, Len(directory) + 1) = directory \o "/"

\* tools.py:36: the paths list_files skips
Skipped(p) ==
    \E skip \in {"node_modules", ".git", "__pycache__", ".next"} : Contains(p, skip)

\* tools.py:25-43.  extension is "None" for Python's None.
list_files(files, directory, extension) ==
    IF ~Exists(files, directory)
    THEN "Error: Directory " \o directory \o " not found"
    ELSE LET found == {p \in DOMAIN files :
                          /\ Under(p, directory)
                          /\ ~Skipped(p)
                          /\ (extension = "None" \/ PathSuffix(p) = extension)}
             rel == [i \in 1 .. Len(SortedIn(NameOrder, found)) |->
                        RelativeTo(SortedIn(NameOrder, found)[i], directory)]
         IN  Join(Take(rel, ListFilesCap), "\n")

\* tools.py:86-93: one entry per result (each result of the model has a title)
RECURSIVE SearchLines(_)
SearchLines(hits) ==
    IF hits = <<>> THEN <<>>
    ELSE << "**" \o Head(hits)[1] \o "**\n" \o Head(hits)[2] \o "\n" >>
         \o SearchLines(Tail(hits))

\* tools.py:73-97
search_web(query) ==
    IF query \notin DOMAIN SearchHits
    THEN "Search error: ConnectError"
    ELSE LET results == SearchLines(Take(SearchHits[query], SearchResultsCap))
         IN  IF results # <<>> THEN Join(results, "\n") ELSE "No results found"

\* tools.py:100-122
fetch_url(url) ==
    IF url \notin DOMAIN Pages
    THEN "Fetch error: ConnectError"
    ELSE LET text == Pages[url]
         IN  IF Len(text) > FetchUrlCap
             THEN SubSeq(text, 1, FetchUrlCap) \o "\n\n... [truncated]"
             ELSE text

\* dict.get(key) with Python's None written "None"
DictGet(d, key) == IF key \in DOMAIN d THEN d[key] ELSE "None"

\* A dispatcher that rejects a name it does not know.
UnknownToolRaises(name) == Raise("ValueError")

\* agent.py:68-69
UnknownTool(name) == Return("Unknown tool: " \o name)

\* agent.py:56-69: what execute_tool(name, input_data) produces: the string it
\* returns, or the KeyError of a subscript input_data[key] whose key is absent.
execute_tool(files, name, input_data) ==
    IF name = "read_file"
    THEN IF "file_path" \notin DOMAIN input_data THEN Raise("KeyError")
         ELSE Return(read_file(files, input_data["file_path"]))
    ELSE IF name = "list_files"
    THEN IF "directory" \notin DOMAIN input_data THEN Raise("KeyError")
         ELSE Return(list_files(files, input_data["directory"],
                                DictGet(input_data, "extension")))
    ELSE IF name = "write_file"
    THEN IF {"file_path", "content"} \subseteq DOMAIN input_data
         THEN Return(write_file(files, input_data["file_path"], input_data["content"]))
         ELSE Raise("KeyError")
    ELSE IF name = "search_web"
    THEN IF "query" \notin DOMAIN input_data THEN Raise("KeyError")
         ELSE Return(search_web(input_data["query"]))
    ELSE IF name = "fetch_url"
    THEN IF "url" \notin DOMAIN input_data THEN Raise("KeyError")
         ELSE Return(fetch_url(input_data["url"]))
    ELSE UnknownTool(name)

\* The filesystem after execute_tool(name, input_data): only write_file, once
\* it has both its arguments, changes it.
execute_tool_fs(files, name, input_data) ==
    IF name = "write_file" /\ {"file_path", "content"} \subseteq DOMAIN input_data
    THEN write_file_fs(files, input_data["file_path"], input_data["content"])
    ELSE files

-----------------------------------------------------------------------------
(* providers.py: what each adapter's chat() makes of the vendor's reply.    *)

Providers == {"anthropic", "openai", "gemini"}

\* The JSON documents of the model: text |-> the dict json.loads returns.  Any
\* other text is not JSON and json.loads raises on it.
JsonDocs ==
    [t \in {"{\"directory\": \"proj\"}",
            "{\"file_path\": \"proj/App.tsx\"}",
            "{\"file_path\": \"proj/nope.tsx\"}",
            "{\"url\": \"https://down.example\"}",
            "{\"file_path\": \"proj/card.tsx\", \"content\": \"<Card v2/>\"}",
            "{\"query\": \"card animations\"}",
            "{}"} |->
        CASE t = "{\"directory\": \"proj\"}" -> [directory |-> "proj"]
          [] t = "{\"file_path\": \"proj/App.tsx\"}" -> [file_path |-> "proj/App.tsx"]
          [] t = "{\"file_path\": \"proj/nope.tsx\"}" -> [file_path |-> "proj/nope.tsx"]
          [] t = "{\"url\": \"https://down.example\"}" -> [url |-> "https://down.example"]
          [] t = "{\"file_path\": \"proj/card.tsx\", \"content\": \"<Card v2/>\"}" ->
                 [file_path |-> "proj/card.tsx", content |-> "<Card v2/>"]
          [] t = "{\"query\": \"card animations\"}" -> [query |-> "card animations"]
          [] OTHER -> EmptyDict]

\* json.loads
JsonLoads(text) ==
    IF text \in DOMAIN JsonDocs THEN Return(JsonDocs[text])
    ELSE Raise("JSONDecodeError")

\* providers.py:39-50: the vendor's content and stop_reason, as they are.
AnthropicChat(reply) ==
    Return([content |-> reply.content, stop_reason |-> reply.stop_reason])

\* providers.py:142-148: one ToolUseBlock per tool call, in order; the first
\* arguments text that is not JSON raises out of the loop.
RECURSIVE OpenAIToolBlocks(_)
OpenAIToolBlocks(tool_calls) ==
    IF tool_calls = <<>> THEN Return(<<>>)
    ELSE LET tc == Head(tool_calls)
             input == JsonLoads(tc.arguments)
         IN  IF IsRaise(input) THEN input
             ELSE LET rest == OpenAIToolBlocks(Tail(tool_calls))
                  IN  IF IsRaise(rest) THEN rest
                      ELSE Return(<<ToolUseBlock(tc.id, tc.name, input.value)>>
                                  \o rest.value)

\* providers.py:134-155.  reply is response.choices[0].message: content is ""
\* for None or the empty string, tool_calls is <<>> for None or the empty list.
OpenAIChat(reply) ==
    LET text == IF reply.content # "" THEN <<TextBlock(reply.content)>> ELSE <<>>
        calls == OpenAIToolBlocks(reply.tool_calls)
    IN  IF IsRaise(calls) THEN calls
        ELSE Return([content |-> text \o calls.value,
                     stop_reason |-> IF reply.tool_calls # <<>> THEN "tool_use"
                                     ELSE "end_turn"])

\* providers.py:266-276: a part with text gives a TextBlock, otherwise a part
\* with a function call gives a ToolUseBlock whose id is built from the call's
\* name and id(fc), the address of the call object.
RECURSIVE GeminiBlocks(_)
GeminiBlocks(parts) ==
    IF parts = <<>> THEN <<>>
    ELSE LET part == Head(parts)
         IN  (IF part.text # ""
              THEN <<TextBlock(part.text)>>
              ELSE IF "function_call" \in DOMAIN part
              THEN LET fc == part.function_call
                   IN  <<ToolUseBlock("gemini_" \o fc.name \o "_" \o ToString(fc.addr),
                                      fc.name, fc.args)>>
              ELSE <<>>)
             \o GeminiBlocks(Tail(parts))

\* providers.py:263-278: has_function_calls
RECURSIVE GeminiHasCalls(_)
GeminiHasCalls(parts) ==
    IF parts = <<>> THEN FALSE
    ELSE (Head(parts).text = "" /\ "function_call" \in DOMAIN Head(parts))
         \/ GeminiHasCalls(Tail(parts))

\* providers.py:261-283.  reply.shape tells what the vendor sent: no candidate
\* (or a candidate without content), a content whose parts are None, or parts.
GeminiChat(reply) ==
    IF reply.shape = "no_content"
    THEN Return([content |-> <<>>, stop_reason |-> "end_turn"])
    ELSE IF reply.shape = "parts_none"
    THEN Raise("TypeError")
    ELSE Return([content |-> GeminiBlocks(reply.parts),
                 stop_reason |-> IF GeminiHasCalls(reply.parts) THEN "tool_use"
                                 ELSE "end_turn"])

\* provider.chat(messages, system, tools), given the reply the vendor sends.
Chat(p, reply) ==
    CASE p = "anthropic" -> AnthropicChat(reply)
      [] p = "openai" -> OpenAIChat(reply)
      [] p = "gemini" -> GeminiChat(reply)

-----------------------------------------------------------------------------
(* The replies the vendors send in the model.                               *)

\* Anthropic: response.content and response.stop_reason
AReply(content, stop_reason) == [content |-> content, stop_reason |-> stop_reason]

\* OpenAI: message.content and message.tool_calls
OReply(content, tool_calls) == [content |-> content, tool_calls |-> tool_calls]

OCall(id, name, arguments) == [id |-> id, name |-> name, arguments |-> arguments]

\* Gemini: the parts of the first candidate's content.  A part's text is "" when
\* it has none; a call's args is the empty dict when the vendor sends none
\* (providers.py:275), and addr is id(fc).
GReply(parts) == [shape |-> "parts", parts |-> parts]

GText(text) == [text |-> text]

GCall(name, args, addr) ==
    [text |-> "", function_call |-> [name |-> name, args |-> args, addr |-> addr]]

\* The routine reply of each vendor: one request to list the project's files.
Routine(p) ==
    CASE p = "anthropic" ->
           AReply(<<ToolUseBlock("toolu_1", "list_files", [directory |-> "proj"])>>,
                  "tool_use")
      [] p = "openai" ->
           OReply("", <<OCall("call_1", "list_files", "{\"directory\": \"proj\"}")>>)
      [] p = "gemini" ->
           GReply(<<GCall("list_files", [directory |-> "proj"], 1)>>)

\* The other replies that ask for tools.  Within one reply the vendor's call ids
\* (and the addresses of Gemini's call objects, which are alive together) are
\* pairwise distinct.
ToolReplies(p) ==
    CASE p = "anthropic" ->
           { AReply(<<TextBlock("Let me look. "),
                      ToolUseBlock("toolu_1", "read_file", [file_path |-> "proj/App.tsx"]),
                      ToolUseBlock("toolu_2", "make_coffee", EmptyDict)>>, "tool_use"),
             AReply(<<ToolUseBlock("toolu_2", "fetch_url", [url |-> "https://down.example"]),
                      TextBlock("and"),
                      ToolUseBlock("toolu_1", "read_file", [file_path |-> "proj/nope.tsx"])>>,
                    "tool_use"),
             AReply(<<ToolUseBlock("toolu_1", "make_coffee", EmptyDict),
                      ToolUseBlock("toolu_2", "read_file", EmptyDict)>>, "tool_use"),
             AReply(<<ToolUseBlock("toolu_1", "write_file",
                                   [file_path |-> "proj/card.tsx", content |-> "<Card v2/>"]),
                      ToolUseBlock("toolu_2", "search_web", [query |-> "card animations"])>>,
                    "tool_use"),
             AReply(<<ToolUseBlock("toolu_1", "fetch_url", EmptyDict),
                      ToolUseBlock("toolu_2", "list_files", [directory |-> "proj"])>>,
                    "tool_use") }
      [] p = "openai" ->
           { OReply("Let me look. ",
                    <<OCall("call_1", "read_file", "{\"file_path\": \"proj/App.tsx\"}"),
                      OCall("call_2", "make_coffee", "{}")>>),
             OReply("", <<OCall("call_2", "fetch_url", "{\"url\": \"https://down.example\"}"),
                          OCall("call_1", "read_file", "{\"file_path\": \"proj/nope.tsx\"}")>>),
             OReply("", <<OCall("call_1", "make_coffee", "{}"),
                          OCall("call_2", "read_file", "{}")>>),
             OReply("", <<OCall("call_1", "write_file",
                                "{\"file_path\": \"proj/card.tsx\", \"content\": \"<Card v2/>\"}"),
                          OCall("call_2", "search_web", "{\"query\": \"card animations\"}")>>),
             OReply("", <<OCall("call_1", "fetch_url", "{}"),
                          OCall("call_2", "list_files", "{\"directory\": \"proj\"}")>>) }
      [] p = "gemini" ->
           { GReply(<<GText("Let me look. "),
                      GCall("read_file", [file_path |-> "proj/App.tsx"], 1),
                      GCall("make_coffee", EmptyDict, 2)>>),
             GReply(<<GCall("fetch_url", [url |-> "https://down.example"], 2),
                      GText("and"),
                      GCall("read_file", [file_path |-> "proj/nope.tsx"], 1)>>),
             GReply(<<GCall("make_coffee", EmptyDict, 1),
                      GCall("read_file", EmptyDict, 2)>>),
             GReply(<<GCall("write_file",
                            [file_path |-> "proj/card.tsx", content |-> "<Card v2/>"], 1),
                      GCall("search_web", [query |-> "card animations"], 2)>>),
             GReply(<<GCall("fetch_url", EmptyDict, 1),
                      GCall("list_files", [directory |-> "proj"], 2)>>) }

\* The replies that end the run: final answers, an empty answer, a stop reason
\* the loop does not know, a payload the adapter cannot decode.
LastReplies(p) ==
    CASE p = "anthropic" ->
           { AReply(<<TextBlock("Found "), TextBlock("2 files.")>>, "end_turn"),
             AReply(<<>>, "end_turn"),
             AReply(<<TextBlock("Done"),
                      ToolUseBlock("toolu_1", "read_file", [file_path |-> "proj/App.tsx"]),
                      TextBlock(".")>>, "end_turn"),
             AReply(<<TextBlock("I will read"),
                      ToolUseBlock("toolu_1", "read_file", [file_path |-> "proj/App.tsx"])>>,
                    "max_tokens"),
             AReply(<<>>, "refusal") }
      [] p = "openai" ->
           { OReply("Found 2 files.", <<>>),
             OReply("", <<>>),
             OReply("", <<OCall("call_1", "read_file", "{\"file_path\": \"proj/App")>>) }
      [] p = "gemini" ->
           { GReply(<<GText("Found "), GText("2 files.")>>),
             [shape |-> "no_content", parts |-> <<>>],
             [shape |-> "parts_none", parts |-> <<>>],
             GReply(<<[text |-> "Listing",
                       function_call |-> [name |-> "list_files",
                                          args |-> [directory |-> "proj"], addr |-> 1]]>>) }

Replies(p) == {Routine(p)} \cup ToolReplies(p) \cup LastReplies(p)

-----------------------------------------------------------------------------
(* agent.py: run_agent.                                                     *)

\* A message's content is a str (the seed) or a list (blocks, tool results):
\* the value with its Python type, which isinstance() reads.
Str(text) == [py |-> "str", v |-> text]

List(items) == [py |-> "list", v |-> items]

Message(role, content) == [role |-> role, content |-> content]

\* The task and the project path of the run (agent.py:230-235, 250-255).
Task == "list project files"

ProjectPath == "proj"

\* A conversation that starts empty, the task being left out of it.
SeedMessagesEmpty(project_path, user_message) == << >>

\* agent.py:93-98
SeedMessages(project_path, user_message) ==
    << Message("user", Str("Project directory: " \o project_path
                           \o "\n\nTask: " \o user_message)) >>

\* final_text = block.text: the text of the last block that has one.
RECURSIVE FinalTextLast(_)
FinalTextLast(content) ==
    IF content = <<>> THEN ""
    ELSE IF HasText(content[Len(content)]) THEN content[Len(content)].text
    ELSE FinalTextLast(SubSeq(content, 1, Len(content) - 1))

\* agent.py:127-130: the text of the blocks that have one, in content order.
RECURSIVE FinalText(_)
FinalText(content) ==
    IF content = <<>> THEN ""
    ELSE (IF HasText(Head(content)) THEN Head(content).text ELSE "")
         \o FinalText(Tail(content))

\* A loop that executes tools on every response that is not final.
BranchNotEndTurn(stop_reason) ==
    IF stop_reason = "end_turn" THEN "Done" ELSE "tool"

\* agent.py:126, 140, 171: where a response takes the loop.
Branch(stop_reason) ==
    IF stop_reason = "end_turn" THEN "Done"
    ELSE IF stop_reason = "tool_use" THEN "tool"
    ELSE "Aborted"

\* agent.py:173
AbortMessage(stop_reason) == "Agent stopped unexpectedly: " \o stop_reason

\* agent.py:175
ExhaustedMessage == "Agent reached maximum iterations without completing."

\* A result correlated by the tool's name instead of the request's id.
ToolResultByName(b, content) ==
    [type |-> "tool_result", tool_use_id |-> b.name, tool_name |-> b.name,
     content |-> content]

\* agent.py:162-167
ToolResult(b, content) ==
    [type |-> "tool_result", tool_use_id |-> b.id, tool_name |-> b.name,
     content |-> content]

\* tool_results.insert(0, ...)
CollectFront(results, entry) == <<entry>> \o results

\* agent.py:162: tool_results.append(...)
Collect(results, entry) == Append(results, entry)

\* A for loop that breaks after its first tool call.
NextToolUseFirstOnly(content, i) ==
    IF i = 0 /\ ToolUseFrom(content, 1) # <<>> THEN ToolUseFrom(content, 1)[1] ELSE 0

\* agent.py:146-147: the next block the for loop executes after position i, 0
\* when the loop is over.
NextToolUse(content, i) ==
    LET rest == ToolUseFrom(content, i + 1)
    IN  IF rest = <<>> THEN 0 ELSE rest[1]

\* A history kept as a window: appending drops the oldest message after the seed
\* once four messages are held.
AppendMessageWindowed(msgs, m) ==
    IF Len(msgs) >= 4 THEN <<msgs[1]>> \o SubSeq(msgs, 3, Len(msgs)) \o <<m>>
    ELSE Append(msgs, m)

\* agent.py:142, 170: messages.append(...)
AppendMessage(msgs, m) == Append(msgs, m)

\* A loop that swallows the adapter's exception and tries again.
OnChatRaiseRetry == "while"

\* agent.py:119-123: provider.chat is called with no handler around it, so
\* what it raises leaves run_agent.
OnChatRaise == "Raised"

\* agent.py:156: execute_tool is awaited with no handler around it.
OnToolRaise == "Raised"

-----------------------------------------------------------------------------
(* providers.py: what each adapter's chat() sends to the vendor.            *)

\* agent.py:22: the system prompt (its first line stands for the whole text).
SYSTEM_PROMPT == "You are a UI/UX Research Agent specialized in web development."

\* str(block.input): Python's repr of the input dicts of the model.
PyRepr(input) ==
    CASE input = [directory |-> "proj"] -> "{'directory': 'proj'}"
      [] input = [file_path |-> "proj/App.tsx"] -> "{'file_path': 'proj/App.tsx'}"
      [] input = [file_path |-> "proj/nope.tsx"] -> "{'file_path': 'proj/nope.tsx'}"
      [] input = [url |-> "https://down.example"] -> "{'url': 'https://down.example'}"
      [] input = [file_path |-> "proj/card.tsx", content |-> "<Card v2/>"] ->
             "{'file_path': 'proj/card.tsx', 'content': '<Card v2/>'}"
      [] input = [query |-> "card animations"] -> "{'query': 'card animations'}"
      [] OTHER -> "{}"

\* A loop over the tool results that stops after the first one.
OpenAIToolMessagesFirstOnly(items) ==
    IF items = <<>> THEN <<>>
    ELSE <<[role |-> "tool", tool_call_id |-> Head(items).tool_use_id,
            content |-> Head(items).content]>>

\* providers.py:88-94: one tool message per tool_result item, in order.
RECURSIVE OpenAIToolMessages(_)
OpenAIToolMessages(items) ==
    IF items = <<>> THEN <<>>
    ELSE LET item == Head(items)
         IN  (IF "type" \in DOMAIN item /\ item.type = "tool_result"
              THEN <<[role |-> "tool", tool_call_id |-> item.tool_use_id,
                      content |-> item.content]>>
              ELSE <<>>)
             \o OpenAIToolMessages(Tail(items))

\* providers.py:98-103: text_content
RECURSIVE OpenAIText(_)
OpenAIText(content) ==
    IF content = <<>> THEN ""
    ELSE (IF HasText(Head(content)) THEN Head(content).text ELSE "")
         \o OpenAIText(Tail(content))

\* providers.py:99-112: tool_calls
RECURSIVE OpenAICalls(_)
OpenAICalls(content) ==
    IF content = <<>> THEN <<>>
    ELSE LET b == Head(content)
         IN  (IF ~HasText(b) /\ IsToolUse(b)
              THEN <<[id |-> b.id, type |-> "function",
                      function |-> [name |-> b.name, arguments |-> PyRepr(b.input)]]>>
              ELSE <<>>)
             \o OpenAICalls(Tail(content))

\* providers.py:82-117: the vendor messages one message of the history gives.
\* An assistant content of "" stands for None (text_content or None).
OpenAIMessageOf(msg) ==
    IF msg.role = "user"
    THEN IF msg.content.py = "str"
         THEN <<[role |-> "user", content |-> msg.content.v]>>
         ELSE OpenAIToolMessages(msg.content.v)
    ELSE IF msg.role = "assistant" /\ msg.content.py = "list"
    THEN LET tool_calls == OpenAICalls(msg.content.v)
             text_content == OpenAIText(msg.content.v)
         IN  IF tool_calls # <<>>
             THEN <<[role |-> "assistant", content |-> text_content,
                     tool_calls |-> tool_calls]>>
             ELSE <<[role |-> "assistant", content |-> text_content]>>
    ELSE <<>>

RECURSIVE OpenAIMessages(_)
OpenAIMessages(msgs) ==
    IF msgs = <<>> THEN <<>>
    ELSE OpenAIMessageOf(Head(msgs)) \o OpenAIMessages(Tail(msgs))

\* providers.py:78-119: _convert_messages_to_openai
ConvertMessagesToOpenAI(msgs, system) ==
    <<[role |-> "system", content |-> system]>> \o OpenAIMessages(msgs)

\* providers.py:223-231: one function_response part per tool_result item.
RECURSIVE GeminiResponseParts(_)
GeminiResponseParts(items) ==
    IF items = <<>> THEN <<>>
    ELSE LET item == Head(items)
         IN  (IF "type" \in DOMAIN item /\ item.type = "tool_result"
              THEN <<[function_response |->
                        [name |-> IF "tool_name" \in DOMAIN item THEN item.tool_name
                                  ELSE "unknown",
                         response |-> [result |-> item.content]]]>>
              ELSE <<>>)
             \o GeminiResponseParts(Tail(items))

\* providers.py:236-246: a text part for a block with a non-empty text, else a
\* function_call part for a tool_use block.
RECURSIVE GeminiModelParts(_)
GeminiModelParts(content) ==
    IF content = <<>> THEN <<>>
    ELSE LET b == Head(content)
         IN  (IF HasText(b) /\ b.text # ""
              THEN <<[text |-> b.text]>>
              ELSE IF IsToolUse(b)
              THEN <<[function_call |-> [name |-> b.name, args |-> b.input]]>>
              ELSE <<>>)
             \o GeminiModelParts(Tail(content))

\* providers.py:214-248: the Content one message of the history gives, none
\* when it has no parts.
GeminiContentOf(msg) ==
    IF msg.role = "user"
    THEN IF msg.content.py = "str"
         THEN <<[role |-> "user", parts |-> <<[text |-> msg.content.v]>>]>>
         ELSE LET parts == GeminiResponseParts(msg.content.v)
              IN  IF parts # <<>> THEN <<[role |-> "user", parts |-> parts]>> ELSE <<>>
    ELSE IF msg.role = "assistant" /\ msg.content.py = "list"
    THEN LET parts == GeminiModelParts(msg.content.v)
         IN  IF parts # <<>> THEN <<[role |-> "model", parts |-> parts]>> ELSE <<>>
    ELSE <<>>

\* providers.py:213-248: contents
RECURSIVE GeminiContents(_)
GeminiContents(msgs) ==
    IF msgs = <<>> THEN <<>>
    ELSE GeminiContentOf(Head(msgs)) \o GeminiContents(Tail(msgs))

\* tools.py:126-204: the descriptors (the first sentence stands for each
\* description); a dict is a function, the list of required names a sequence.
StringProp(description) == [type |-> "string", description |-> description]

Descriptor(name, description, properties, required) ==
    [name |-> name, description |-> description,
     input_schema |-> [type |-> "object", properties |-> properties,
                       required |-> required]]

TOOLS ==
    << Descriptor("read_file", "Read the contents of a file from the project.",
           [file_path |-> StringProp("Absolute or relative path to the file to read")],
           <<"file_path">>),
       Descriptor("list_files", "List files in a directory.",
           [directory |-> StringProp("Directory path to list"),
            extension |-> StringProp("Optional file extension filter (e.g., '.tsx', '.css', '.js')")],
           <<"directory">>),
       Descriptor("write_file", "Write content to a file.",
           [file_path |-> StringProp("Path where the file should be written. If file exists, .new suffix will be added automatically."),
            content |-> StringProp("Content to write to the file")],
           <<"file_path", "content">>),
       Descriptor("search_web", "Search the web for design inspiration, UI patterns, component libraries, or bug solutions.",
           [query |-> StringProp("Search query - be specific for better results")],
           <<"query">>),
       Descriptor("fetch_url", "Fetch and read the text content from a URL.",
           [url |-> StringProp("The URL to fetch")],
           <<"url">>) >>

\* providers.py:64-76: _convert_tools_to_openai
ConvertToolsToOpenAI(catalogue) ==
    [i \in DOMAIN catalogue |->
        [type |-> "function",
         function |-> [name |-> catalogue[i].name,
                       description |-> catalogue[i].description,
                       parameters |-> catalogue[i].input_schema]]]

\* str.upper() on the type names of JSON Schema.
PyUpper(t) ==
    CASE t = "string" -> "STRING"
      [] t = "integer" -> "INTEGER"
      [] t = "boolean" -> "BOOLEAN"
      [] t = "number" -> "NUMBER"
      [] t = "array" -> "ARRAY"
      [] t = "object" -> "OBJECT"
      [] OTHER -> t

\* providers.py:179: prop_def.get("type", "string").upper()
PropType(prop_def) ==
    PyUpper(IF "type" \in DOMAIN prop_def THEN prop_def.type ELSE "string")

\* providers.py:180-194: the types for which the if/elif chain adds the
\* property to `properties`.
NativeTypes == {"STRING", "INTEGER", "BOOLEAN"}

\* providers.py:177-194: properties
GeminiProperties(schema) ==
    LET props == IF "properties" \in DOMAIN schema THEN schema.properties ELSE EmptyDict
        kept == {n \in DOMAIN props : PropType(props[n]) \in NativeTypes}
    IN  [n \in kept |->
            [type |-> PropType(props[n]),
             description |-> IF "description" \in DOMAIN props[n]
                             THEN props[n].description ELSE ""]]

\* providers.py:196-204: func_decl
GeminiDeclaration(tool) ==
    [name |-> tool.name,
     description |-> tool.description,
     parameters |-> [type |-> "OBJECT",
                     properties |-> GeminiProperties(tool.input_schema),
                     required |-> IF "required" \in DOMAIN tool.input_schema
                                  THEN tool.input_schema.required ELSE <<>>]]

\* providers.py:169-207: _convert_tools_to_gemini
ConvertToolsToGemini(catalogue) ==
    << [function_declarations |->
           [i \in DOMAIN catalogue |-> GeminiDeclaration(catalogue[i])]] >>

\* The request chat(messages, system, tools) makes of the history.
Request(p, msgs, system, catalogue) ==
    CASE p = "anthropic" -> [system |-> system, tools |-> catalogue, messages |-> msgs]
      [] p = "openai" -> [messages |-> ConvertMessagesToOpenAI(msgs, system),
                          tools |-> ConvertToolsToOpenAI(catalogue)]
      [] p = "gemini" -> [system_instruction |-> system,
                          tools |-> ConvertToolsToGemini(catalogue),
                          contents |-> GeminiContents(msgs)]

\* A conversion that puts the system message at the head of the list it is
\* given: messages.insert(0, {"role": "system", ...}).
HistoryAfterChatInserted(p, msgs) ==
    IF p = "openai" THEN <<Message("system", Str(SYSTEM_PROMPT))>> \o msgs
    ELSE msgs

\* providers.py:39-46, 78-119, 213-248: the caller's list after chat() built
\* its request.  The adapters read it (for msg in messages) and append to
\* lists of their own (openai_messages, contents); none assigns to it or to
\* one of its messages.
HistoryAfterChat(p, msgs) == msgs

\* Whether a reply uses up one of the run's varied replies.
IsVaried(p, reply) == reply \in ToolReplies(p)

Init ==
    /\ provider \in Providers
    /\ fs = InitialFiles
    /\ pc = "while"
    /\ messages = SeedMessages(ProjectPath, Task)
    /\ iteration = 0
    /\ response = [content |-> <<>>, stop_reason |-> ""]
    /\ block = 0
    /\ tool_results = <<>>
    /\ result = Return("")
    /\ adapterCalls = 0
    /\ adapterReturns = 0
    /\ toolCalls = 0
    /\ toolReturns = 0
    /\ varied = 0
    /\ written = <<>>
    /\ received = <<>>
    /\ sent = <<>>
    /\ tools = TOOLS
    /\ argv = [provider |-> provider, interactive |-> FALSE]
    /\ stdin = <<>>
    /\ task = Task

\* while iteration <= max_iterations
CallChatOffByOne ==
    /\ pc = "while"
    /\ iteration <= max_iterations
    /\ iteration' = iteration + 1
    /\ pc' = "chat"
    /\ adapterCalls' = adapterCalls + 1
    /\ sent' = Request(provider, messages, SYSTEM_PROMPT, tools)
    /\ messages' = HistoryAfterChat(provider, messages)
    /\ UNCHANGED <<provider, fs, response, block, tool_results, result,
                   adapterReturns, toolCalls, toolReturns, varied, written,
                   received,
                   tools,
                   argv, stdin, task>>

\* A loop that branches on the adapter: a Gemini call counts twice against the
\* ceiling.
CallChatByProvider ==
    /\ pc = "while"
    /\ iteration < max_iterations
    /\ iteration' = iteration + (IF provider = "gemini" THEN 2 ELSE 1)
    /\ pc' = "chat"
    /\ adapterCalls' = adapterCalls + 1
    /\ sent' = Request(provider, messages, SYSTEM_PROMPT, tools)
    /\ messages' = HistoryAfterChat(provider, messages)
    /\ UNCHANGED <<provider, fs, response, block, tool_results, result,
                   adapterReturns, toolCalls, toolReturns, varied, written,
                   received, tools,
                   argv, stdin, task>>

\* agent.py:112-123: the loop test passes and provider.chat is called.
CallChat ==
    /\ pc = "while"
    /\ iteration < max_iterations
    /\ iteration' = iteration + 1
    /\ pc' = "chat"
    /\ adapterCalls' = adapterCalls + 1
    /\ sent' = Request(provider, messages, SYSTEM_PROMPT, tools)
    /\ messages' = HistoryAfterChat(provider, messages)
    /\ UNCHANGED <<provider, fs, response, block, tool_results, result,
                   adapterReturns, toolCalls, toolReturns, varied, written,
                   received,
                   tools,
                   argv, stdin, task>>

\* A loop that gives up one call short of the ceiling as well.
ExhaustEarly ==
    /\ pc = "while"
    /\ ~(iteration < max_iterations - 1)
    /\ pc' = "Exhausted"
    /\ result' = Return(ExhaustedMessage)
    /\ UNCHANGED <<provider, fs, messages, iteration, response, block, tool_results,
                   adapterCalls, adapterReturns, toolCalls, toolReturns, varied, written,
                   received, sent,
                   tools,
                   argv, stdin, task>>

\* agent.py:112, 175: the loop test fails.
Exhaust ==
    /\ pc = "while"
    /\ ~(iteration < max_iterations)
    /\ pc' = "Exhausted"
    /\ result' = Return(ExhaustedMessage)
    /\ UNCHANGED <<provider, fs, messages, iteration, response, block, tool_results,
                   adapterCalls, adapterReturns, toolCalls, toolReturns, varied, written,
                   received, sent,
                   tools,
                   argv, stdin, task>>

\* agent.py:119-123: the request itself fails (network, credentials, vendor
\* error) and chat raises.
ChatFails ==
    /\ pc = "chat"
    /\ pc' = OnChatRaise
    /\ result' = Raise("APIConnectionError")
    /\ adapterReturns' = adapterReturns + 1
    /\ UNCHANGED <<provider, fs, messages, iteration, response, block, tool_results,
                   adapterCalls, toolCalls, toolReturns, varied, written,
                   received, sent,
                   tools,
                   argv, stdin, task>>

\* A loop that records the final response in the conversation before it
\* returns the answer.
ChatReturnsRecording ==
    /\ pc = "chat"
    /\ \E reply \in Replies(provider) :
        LET out == Chat(provider, reply) IN
        /\ IsVaried(provider, reply) => varied < MaxVaried
        /\ varied' = IF IsVaried(provider, reply) THEN varied + 1 ELSE varied
        /\ adapterReturns' = adapterReturns + 1
        /\ received' = reply
        /\ IF IsRaise(out)
           THEN /\ pc' = OnChatRaise
                /\ result' = out
                /\ UNCHANGED <<messages, response, block, tool_results, toolCalls>>
           ELSE LET r == out.value
                    to == Branch(r.stop_reason)
                    first == NextToolUse(r.content, 0)
                    said == AppendMessage(messages, Message("assistant", List(r.content)))
                IN  /\ response' = r
                    /\ IF to = "Done"
                       THEN /\ pc' = "Done"
                            /\ result' = Return(FinalText(r.content))
                            /\ messages' = said
                            /\ UNCHANGED <<block, tool_results, toolCalls>>
                       ELSE IF to = "Aborted"
                       THEN /\ pc' = "Aborted"
                            /\ result' = Return(AbortMessage(r.stop_reason))
                            /\ UNCHANGED <<messages, block, tool_results, toolCalls>>
                       ELSE /\ tool_results' = <<>>
                            /\ block' = first
                            /\ result' = result
                            /\ IF first = 0
                               THEN /\ messages' = AppendMessage(said, Message("user", List(<<>>)))
                                    /\ pc' = "while"
                                    /\ toolCalls' = toolCalls
                               ELSE /\ messages' = said
                                    /\ pc' = "tool"
                                    /\ toolCalls' = toolCalls + 1
    /\ UNCHANGED <<provider, fs, iteration, adapterCalls, toolReturns, written, sent,
                   tools,
                   argv, stdin, task>>

\* agent.py:119-173: the vendor replies; chat decodes the reply (or raises on
\* it) and the loop branches on the stop reason, up to its next call.
ChatReturns ==
    /\ pc = "chat"
    /\ \E reply \in Replies(provider) :
        LET out == Chat(provider, reply) IN
        /\ IsVaried(provider, reply) => varied < MaxVaried
        /\ varied' = IF IsVaried(provider, reply) THEN varied + 1 ELSE varied
        /\ adapterReturns' = adapterReturns + 1
        /\ received' = reply
        /\ IF IsRaise(out)
           THEN /\ pc' = OnChatRaise
                /\ result' = out
                /\ UNCHANGED <<messages, response, block, tool_results, toolCalls>>
           ELSE LET r == out.value
                    to == Branch(r.stop_reason)
                    first == NextToolUse(r.content, 0)
                    said == AppendMessage(messages, Message("assistant", List(r.content)))
                IN  /\ response' = r
                    /\ IF to = "Done"
                       THEN /\ pc' = "Done"
                            /\ result' = Return(FinalText(r.content))
                            /\ UNCHANGED <<messages, block, tool_results, toolCalls>>
                       ELSE IF to = "Aborted"
                       THEN /\ pc' = "Aborted"
                            /\ result' = Return(AbortMessage(r.stop_reason))
                            /\ UNCHANGED <<messages, block, tool_results, toolCalls>>
                       ELSE /\ tool_results' = <<>>
                            /\ block' = first
                            /\ result' = result
                            /\ IF first = 0
                               THEN /\ messages' = AppendMessage(said, Message("user", List(<<>>)))
                                    /\ pc' = "while"
                                    /\ toolCalls' = toolCalls
                               ELSE /\ messages' = said
                                    /\ pc' = "tool"
                                    /\ toolCalls' = toolCalls + 1
    /\ UNCHANGED <<provider, fs, iteration, adapterCalls, toolReturns, written, sent,
                   tools,
                   argv, stdin, task>>

\* A loop that appends each result as a message of its own, as soon as the
\* tool returned.
ToolReturnsEach ==
    /\ pc = "tool"
    /\ LET b == response.content[block]
           out == execute_tool(fs, b.name, b.input)
           next == NextToolUse(response.content, block)
       IN  /\ toolReturns' = toolReturns + 1
           /\ IF IsRaise(out)
              THEN /\ pc' = OnToolRaise
                   /\ result' = out
                   /\ UNCHANGED <<fs, messages, block, tool_results, toolCalls>>
              ELSE /\ fs' = execute_tool_fs(fs, b.name, b.input)
                   /\ tool_results' = Collect(tool_results, ToolResult(b, out.value))
                   /\ block' = next
                   /\ result' = result
                   /\ messages' = AppendMessage(messages,
                                     Message("user", List(<<ToolResult(b, out.value)>>)))
                   /\ IF next = 0
                      THEN /\ pc' = "while"
                           /\ toolCalls' = toolCalls
                      ELSE /\ pc' = "tool"
                           /\ toolCalls' = toolCalls + 1
    /\ UNCHANGED <<provider, iteration, response, adapterCalls, adapterReturns, varied, written,
                   received, sent,
                   tools,
                   argv, stdin, task>>

\* agent.py:146-170: the awaited execute_tool comes back; its result is
\* collected and the for loop goes on to its next tool_use block, or ends and
\* the results are appended.
ToolReturns ==
    /\ pc = "tool"
    /\ LET b == response.content[block]
           out == execute_tool(fs, b.name, b.input)
           next == NextToolUse(response.content, block)
       IN  /\ toolReturns' = toolReturns + 1
           /\ IF IsRaise(out)
              THEN /\ pc' = OnToolRaise
                   /\ result' = out
                   /\ UNCHANGED <<fs, messages, block, tool_results, toolCalls>>
              ELSE /\ fs' = execute_tool_fs(fs, b.name, b.input)
                   /\ tool_results' = Collect(tool_results, ToolResult(b, out.value))
                   /\ block' = next
                   /\ result' = result
                   /\ IF next = 0
                      THEN /\ messages' = AppendMessage(messages,
                                                        Message("user", List(tool_results')))
                           /\ pc' = "while"
                           /\ toolCalls' = toolCalls
                      ELSE /\ messages' = messages
                           /\ pc' = "tool"
                           /\ toolCalls' = toolCalls + 1
    /\ UNCHANGED <<provider, iteration, response, adapterCalls, adapterReturns, varied, written,
                   received, sent,
                   tools,
                   argv, stdin, task>>

Next == CallChat \/ Exhaust \/ ChatFails \/ ChatReturns \/ ToolReturns

Spec == Init /\ [][Next]_vars

-----------------------------------------------------------------------------
(* tools.py: write_file called repeatedly on one filesystem.               *)

\* The names that may be occupied before the first call.
OccupiedNames ==
    {"proj/card.tsx", "proj/card.new.tsx", "proj/card.new2.tsx",
     "proj/card.new3.tsx", "proj/.env"}

\* The file_path arguments of the calls: a file with a suffix, a dotfile, a
\* name with two suffixes and a directory.
WriteTargets == {"proj/card.tsx", "proj/.env", "proj/a.tar.gz", "proj"}

\* The content arguments of the calls.
WriteContents == {"<Card v2/>", ""}

\* What every file holds before the first call.
OldContent == "<old/>"

WriteInit ==
    /\ \E occupied \in SUBSET OccupiedNames : fs = [p \in occupied |-> OldContent]
    /\ written = <<>>
    /\ received = <<>>
    /\ sent = <<>>
    /\ tools = TOOLS
    /\ provider = "anthropic"
    /\ pc = "write"
    /\ messages = <<>>
    /\ iteration = 0
    /\ response = [content |-> <<>>, stop_reason |-> ""]
    /\ block = 0
    /\ tool_results = <<>>
    /\ result = Return("")
    /\ adapterCalls = 0
    /\ adapterReturns = 0
    /\ toolCalls = 0
    /\ toolReturns = 0
    /\ varied = 0
    /\ argv = [provider |-> provider, interactive |-> FALSE]
    /\ stdin = <<>>
    /\ task = ""

\* tools.py:46-70: one call of write_file, with what it found and what it left.
WriteFile ==
    /\ pc = "write"
    /\ Len(written) < MaxWrites
    /\ \E file_path \in WriteTargets, content \in WriteContents :
        /\ fs' = write_file_fs(fs, file_path, content)
        /\ result' = Return(write_file(fs, file_path, content))
        /\ written' = Append(written,
                [file_path |-> file_path, content |-> content, before |-> fs,
                 path |-> WriteTarget(fs, file_path), after |-> fs',
                 returned |-> write_file(fs, file_path, content)])
    /\ UNCHANGED <<provider, pc, messages, iteration, response, block, tool_results,
                   adapterCalls, adapterReturns, toolCalls, toolReturns, varied,
                   received, sent,
                   tools,
                   argv, stdin, task>>

WriteNext == WriteFile

WriteSpec == WriteInit /\ [][WriteNext]_vars

-----------------------------------------------------------------------------
(* providers.py: _convert_tools_to_gemini applied to a descriptor.         *)

\* The property names and the property definitions of the descriptors: the
\* types of JSON Schema, a definition without "type" and one without
\* "description".
PropNames == {"path", "limit"}

PropDefs ==
    {[type |-> t, description |-> "d"] :
        t \in {"string", "integer", "boolean", "number", "array", "object"}}
    \cup {[description |-> "d"], [type |-> "integer"]}

\* The "required" lists over the property names.
RequiredLists == {<<>>, <<"path">>, <<"limit">>, <<"path", "limit">>}

\* The input schemas: any properties over the names, with a "required" list
\* of names that are properties, or without the "required" key.
Schemas ==
    UNION {
        {[type |-> "object", properties |-> props, required |-> req] :
            req \in {r \in RequiredLists : \A k \in DOMAIN r : r[k] \in DOMAIN props}}
        \cup {[type |-> "object", properties |-> props]} :
        props \in UNION {[S -> PropDefs] : S \in SUBSET PropNames}}

ConvertInit ==
    /\ \E schema \in Schemas :
          tools = <<[name |-> "resize", description |-> "Resize an image.",
                     input_schema |-> schema]>>
    /\ sent = <<>>
    /\ pc = "convert"
    /\ written = <<>>
    /\ received = <<>>
    /\ fs = InitialFiles
    /\ provider = "gemini"
    /\ messages = <<>>
    /\ iteration = 0
    /\ response = [content |-> <<>>, stop_reason |-> ""]
    /\ block = 0
    /\ tool_results = <<>>
    /\ result = Return("")
    /\ adapterCalls = 0
    /\ adapterReturns = 0
    /\ toolCalls = 0
    /\ toolReturns = 0
    /\ varied = 0
    /\ argv = [provider |-> provider, interactive |-> FALSE]
    /\ stdin = <<>>
    /\ task = ""

\* providers.py:256: tools=self._convert_tools_to_gemini(tools)
ConvertTools ==
    /\ pc = "convert"
    /\ pc' = "converted"
    /\ sent' = [tools |-> ConvertToolsToGemini(tools)]
    /\ UNCHANGED <<provider, fs, messages, iteration, response, block, tool_results,
                   result, adapterCalls, adapterReturns, toolCalls, toolReturns,
                   varied, written, received, tools,
                   argv, stdin, task>>

ConvertNext == ConvertTools

ConvertSpec == ConvertInit /\ [][ConvertNext]_vars

-----------------------------------------------------------------------------
(* agent.py: main, from the command line to the end of the process, and the *)
(* two calls an importing program makes: get_provider and run_agent.        *)

\* agent.py:199: choices of --provider.
Choices == {"anthropic", "openai", "gemini"}

\* The provider names asked for: the three of the table and one that is not
\* in it.
ProviderNames == Choices \cup {"mistral"}

\* The tasks typed at the prompt.
FirstTask == "add a card file"
SecondTask == "modernize the card"

\* What is typed at the prompt of the interactive mode, line by line; after
\* the last line the input is closed.
Stdins ==
    {<<FirstTask, SecondTask, "Quit">>,
     <<"">>,
     <<"q">>}

\* agent.py:224: input("You: ").strip().  The lines of Stdins carry no white
\* space at either end.
PyStrip(line) == line

\* agent.py:225: task.lower().  The lines of Stdins are in lower case but one.
PyLower(line) == IF line = "Quit" THEN "quit" ELSE line

\* A factory that falls back on the default adapter for a name it does not
\* know.
get_provider_default(provider_name) ==
    IF provider_name \notin {"anthropic", "openai", "gemini"}
    THEN Return("anthropic")
    ELSE Return(provider_name)

\* providers.py:304-325: get_provider.  The adapter is stood for by its name.
get_provider(provider_name) ==
    IF provider_name \notin {"anthropic", "openai", "gemini"}
    THEN Raise("ValueError")
    ELSE Return(provider_name)

\* A conversation kept in a list that outlives the call: the seed of the run
\* is appended to what the list held.
NewConversationKept(previous, project_path, text) ==
    previous \o SeedMessages(project_path, text)

\* agent.py:93-98: messages = [...], a list made by the call, whatever an
\* earlier call left in its own list.
NewConversation(previous, project_path, text) ==
    SeedMessages(project_path, text)

MainInit ==
    /\ \E entry \in {"main", "get_provider", "run_agent"},
          name \in ProviderNames, interactive \in BOOLEAN :
          /\ pc = entry
          /\ entry # "main" => ~interactive
          /\ entry = "run_agent" => name = "anthropic"
          /\ argv = [provider |-> name, interactive |-> interactive]
          /\ stdin \in (IF interactive THEN Stdins ELSE {<<>>})
    /\ provider = "None"
    /\ task = ""
    /\ fs = InitialFiles
    /\ messages = <<>>
    /\ iteration = 0
    /\ response = [content |-> <<>>, stop_reason |-> ""]
    /\ block = 0
    /\ tool_results = <<>>
    /\ result = Return("")
    /\ adapterCalls = 0
    /\ adapterReturns = 0
    /\ toolCalls = 0
    /\ toolReturns = 0
    /\ varied = 0
    /\ written = <<>>
    /\ received = <<>>
    /\ sent = <<>>
    /\ tools = TOOLS

\* agent.py:197-201, 213: parse_args ends the process on a --provider that
\* is not one of the choices.
ParseArgs ==
    /\ pc = "main"
    /\ IF argv.provider \in Choices
       THEN /\ pc' = "get_provider"
            /\ result' = result
       ELSE /\ pc' = "ConfigError"
            /\ result' = Raise("SystemExit")
    /\ UNCHANGED <<provider, fs, messages, iteration, response, block, tool_results,
                   adapterCalls, adapterReturns, toolCalls, toolReturns, varied,
                   written, received, sent, tools, argv, stdin, task>>

\* agent.py:216: provider = get_provider(args.provider, args.model), by main
\* or by an importing program; nothing catches what it raises.
GetProvider ==
    /\ pc = "get_provider"
    /\ LET out == get_provider(argv.provider) IN
        IF IsRaise(out)
        THEN /\ pc' = "ConfigError"
             /\ result' = out
             /\ provider' = provider
        ELSE /\ pc' = IF argv.interactive THEN "input" ELSE "run_agent"
             /\ result' = result
             /\ provider' = out.value
    /\ UNCHANGED <<fs, messages, iteration, response, block, tool_results,
                   adapterCalls, adapterReturns, toolCalls, toolReturns, varied,
                   written, received, sent, tools, argv, stdin, task>>

\* agent.py:72-110: run_agent is entered: the adapter defaults to Anthropic's,
\* the conversation is made and the counter is set.  The call's own names
\* start anew; the filesystem is what the earlier calls left.
EnterRunAgent(text) ==
    /\ provider' = IF provider = "None" THEN get_provider("anthropic").value
                   ELSE provider
    /\ task' = text
    /\ messages' = NewConversation(messages, ProjectPath, text)
    /\ iteration' = 0
    /\ response' = [content |-> <<>>, stop_reason |-> ""]
    /\ block' = 0
    /\ tool_results' = <<>>
    /\ result' = Return("")
    /\ adapterCalls' = 0
    /\ adapterReturns' = 0
    /\ toolCalls' = 0
    /\ toolReturns' = 0
    /\ received' = <<>>
    /\ sent' = <<>>
    /\ pc' = "while"

\* agent.py:240-255: the one run of the non-interactive mode, or the call an
\* importing program makes.
RunOnce ==
    /\ pc = "run_agent"
    /\ EnterRunAgent(Task)
    /\ UNCHANGED <<fs, varied, written, tools, argv, stdin>>

\* agent.py:222-235: a line is read at the prompt: it ends the session, is
\* skipped, or is the task of a new run.  At the end of the input, input()
\* raises EOFError, which main lets through.
ReadTask ==
    /\ pc = "input"
    /\ IF stdin = <<>>
       THEN /\ pc' = "Raised"
            /\ result' = Raise("EOFError")
            /\ UNCHANGED <<provider, messages, iteration, response, block,
                           tool_results, adapterCalls, adapterReturns, toolCalls,
                           toolReturns, received, sent, task, stdin>>
       ELSE LET line == PyStrip(Head(stdin)) IN
            /\ stdin' = Tail(stdin)
            /\ IF PyLower(line) \in {"quit", "exit", "q"}
               THEN /\ pc' = "Exit"
                    /\ UNCHANGED <<provider, messages, iteration, response, block,
                                   tool_results, result, adapterCalls, adapterReturns,
                                   toolCalls, toolReturns, received, sent, task>>
               ELSE IF line = ""
               THEN /\ pc' = "input"
                    /\ UNCHANGED <<provider, messages, iteration, response, block,
                                   tool_results, result, adapterCalls, adapterReturns,
                                   toolCalls, toolReturns, received, sent, task>>
               ELSE EnterRunAgent(line)
    /\ UNCHANGED <<fs, varied, written, tools, argv>>

\* agent.py:236, 256: run_agent returned; its string is printed, and the
\* interactive mode goes back to the prompt.
PrintResult ==
    /\ pc \in {"Done", "Exhausted", "Aborted"}
    /\ pc' = IF argv.interactive THEN "input" ELSE "Exit"
    /\ UNCHANGED <<provider, fs, messages, iteration, response, block, tool_results,
                   result, adapterCalls, adapterReturns, toolCalls, toolReturns,
                   varied, written, received, sent, tools, argv, stdin, task>>

\* agent.py:237-239: Ctrl-C while a run is on its way.  asyncio.run cancels
\* the task where it stands and raises KeyboardInterrupt; the interactive
\* mode catches it and leaves, the other mode lets it through.  The
\* conversation is what the run had made of it.
Cancel ==
    /\ pc \in {"while", "chat", "tool"}
    /\ pc' = "Cancelled"
    /\ result' = Raise("KeyboardInterrupt")
    /\ UNCHANGED <<provider, fs, messages, iteration, response, block, tool_results,
                   adapterCalls, adapterReturns, toolCalls, toolReturns, varied,
                   written, received, sent, tools, argv, stdin, task>>

MainNext ==
    \/ ParseArgs \/ GetProvider \/ RunOnce \/ ReadTask \/ PrintResult \/ Cancel
    \/ CallChat \/ Exhaust \/ ChatFails \/ ChatReturns \/ ToolReturns

MainSpec == MainInit /\ [][MainNext]_vars

-----------------------------------------------------------------------------
(* tools.py: one tool request of a turn, over contents of many sizes.       *)

\* How many page files the project holds, and how long App.tsx is: around the
\* caps of list_files and read_file.
FileCounts == {0, ListFilesCap - 1, ListFilesCap, ListFilesCap + 1, ListFilesCap + 10}

FileSizes == {0, ReadFileCap - 1, ReadFileCap, ReadFileCap + 1, 2 * ReadFileCap + 5}

\* The project with n page files and an App.tsx of `size` characters.
ProjectOf(n, size) ==
    [p \in {"proj/App.tsx"} \cup {PagePath(i) : i \in 1 .. n} |->
        IF p = "proj/App.tsx" THEN Filler(size) ELSE "<Page/>"]

\* The tool requests of the turn: each tool, on contents below, at and over
\* its cap, and on what it cannot find or reach.
ToolRequests ==
    {ToolUseBlock("toolu_1", "read_file", [file_path |-> f]) :
        f \in {"proj/App.tsx", "proj/nope.tsx"}}
    \cup {ToolUseBlock("toolu_1", "list_files", [directory |-> "proj"]),
          ToolUseBlock("toolu_1", "list_files", [directory |-> "proj", extension |-> ".tsx"]),
          ToolUseBlock("toolu_1", "list_files", [directory |-> "nowhere"]),
          ToolUseBlock("toolu_1", "write_file",
                       [file_path |-> "proj/App.tsx", content |-> "<App/>"])}
    \cup {ToolUseBlock("toolu_1", "search_web", [query |-> q]) :
            q \in DOMAIN SearchHits \cup {"offline"}}
    \cup {ToolUseBlock("toolu_1", "fetch_url", [url |-> u]) :
            u \in DOMAIN Pages \cup {"https://down.example"}}

\* agent.py:139-147: the first response of a run was a tool_use with one
\* request; the assistant message is appended and the tool is called.
ToolInit ==
    /\ \E n \in FileCounts, size \in FileSizes : fs = ProjectOf(n, size)
    /\ \E b \in ToolRequests : response = [content |-> <<b>>, stop_reason |-> "tool_use"]
    /\ received = response
    /\ provider = "anthropic"
    /\ task = Task
    /\ messages = AppendMessage(SeedMessages(ProjectPath, Task),
                                Message("assistant", List(response.content)))
    /\ sent = Request(provider, SeedMessages(ProjectPath, Task), SYSTEM_PROMPT, TOOLS)
    /\ tools = TOOLS
    /\ pc = "tool"
    /\ iteration = 1
    /\ block = 1
    /\ tool_results = <<>>
    /\ result = Return("")
    /\ adapterCalls = 1
    /\ adapterReturns = 1
    /\ toolCalls = 1
    /\ toolReturns = 0
    /\ varied = 0
    /\ written = <<>>
    /\ argv = [provider |-> provider, interactive |-> FALSE]
    /\ stdin = <<>>

ToolNext == ToolReturns

ToolSpec == ToolInit /\ [][ToolNext]_vars

-----------------------------------------------------------------------------
(* What the properties read off a state.                                    *)

Terminated == pc \in {"Done", "Exhausted", "Aborted", "Raised"}

\* The positions of the assistant turns of the conversation.
AssistantTurns == {n \in DOMAIN messages : messages[n].role = "assistant"}

\* The positions of the tool-results messages of the conversation.
ResultTurns ==
    {n \in DOMAIN messages : messages[n].role = "user" /\ messages[n].content.py = "list"}

\* The ToolUseBlocks of the assistant turn at position n, in order.
UsesOf(n) ==
    LET content == messages[n].content.v
        idx == ToolUseIdx(content)
    IN  [i \in 1 .. Len(idx) |-> content[idx[i]]]

RECURSIVE SumOver(_, _)
SumOver(S, f) ==
    IF S = {} THEN 0
    ELSE LET x == CHOOSE y \in S : TRUE IN f[x] + SumOver(S \ {x}, f)

\* Tool requests and tool results the conversation holds.
TotalToolUses == SumOver(AssistantTurns, [n \in AssistantTurns |-> Len(UsesOf(n))])

TotalResults == SumOver(ResultTurns, [n \in ResultTurns |-> Len(messages[n].content.v)])

\* An adapter call, a tool call, is in progress.
InAdapter == adapterCalls > adapterReturns

InTool == toolCalls > toolReturns

\* The texts of the TextBlocks of a content list, in order.
RECURSIVE TextsOf(_)
TextsOf(content) ==
    IF content = <<>> THEN <<>>
    ELSE (IF Head(content).type = "text" THEN <<Head(content).text>> ELSE <<>>)
         \o TextsOf(Tail(content))

\* The run failed in provider.chat: what left run_agent is an exception of the
\* adapter (execute_tool only lets a KeyError through).
ChatFailed == IsRaise(result) /\ result.value # "KeyError"

KnownTools == {"read_file", "list_files", "write_file", "search_web", "fetch_url"}

-----------------------------------------------------------------------------
(* The claims.                                                              *)

\* C1: once a run in which every adapter call returned a tool_use response has
\* ended, it has made exactly max_iterations adapter calls and returned the
\* Exhausted message.
C1_TerminationBound ==
    (/\ Terminated
     /\ adapterReturns = adapterCalls
     /\ Cardinality(AssistantTurns) = adapterCalls)
    => (/\ pc = "Exhausted"
        /\ adapterCalls = max_iterations
        /\ result = Return(ExhaustedMessage))

\* C2: whenever the loop stands outside a tool round (at its test, in an adapter
\* call, or returned), every assistant turn n is followed by a tool-results
\* turn n+1 in which each ToolUseBlock id of turn n occurs exactly once; and in
\* every state each tool-result block of the conversation has a ToolUseBlock of
\* the same id in the assistant turn just before it.
C2_Correlation ==
    /\ pc \in {"while", "chat", "Done", "Exhausted", "Aborted"} =>
         \A n \in AssistantTurns :
            /\ n + 1 \in ResultTurns
            /\ LET uses == UsesOf(n)
                   results == messages[n + 1].content.v
               IN  \A i \in DOMAIN uses :
                      Cardinality({j \in DOMAIN results :
                                      results[j].tool_use_id = uses[i].id}) = 1
    /\ \A m \in ResultTurns :
         /\ m - 1 \in AssistantTurns
         /\ LET uses == UsesOf(m - 1)
                results == messages[m].content.v
            IN  \A j \in DOMAIN results :
                   \E i \in DOMAIN uses : uses[i].id = results[j].tool_use_id

\* An adapter call is in progress on a conversation holding a turn that mixes
\* text with two tool requests, answered.
C2_Witness ==
    /\ pc = "chat"
    /\ \E n \in AssistantTurns :
          /\ Len(UsesOf(n)) = 2
          /\ Len(messages[n].content.v) = 3
          /\ n + 1 \in ResultTurns

\* C3: in every tool-results message, the i-th result carries the id and the
\* tool name of the i-th ToolUseBlock of the assistant turn before it, and there
\* are as many results as requests; the results collected so far during a round
\* match the first requests of the response the same way.
C3_Ordering ==
    /\ \A m \in ResultTurns :
         /\ m - 1 \in AssistantTurns
         /\ LET uses == UsesOf(m - 1)
                results == messages[m].content.v
            IN  /\ Len(results) = Len(uses)
                /\ \A i \in DOMAIN results :
                      /\ results[i].tool_use_id = uses[i].id
                      /\ results[i].tool_name = uses[i].name
    /\ pc = "tool" =>
         LET idx == ToolUseIdx(response.content)
         IN  \A i \in DOMAIN tool_results :
                /\ i <= Len(idx)
                /\ tool_results[i].tool_use_id = response.content[idx[i]].id
                /\ tool_results[i].tool_name = response.content[idx[i]].name

\* A tool-results message answers two requests whose ids differ.
C3_Witness ==
    \E m \in ResultTurns :
       /\ Len(messages[m].content.v) = 2
       /\ messages[m].content.v[1].tool_use_id # messages[m].content.v[2].tool_use_id
       /\ messages[m].content.v[1].tool_name # messages[m].content.v[2].tool_name

\* C4: a run that ended on an end_turn response returned the texts of that
\* response's TextBlocks, joined in content order, and nothing else.
C4_FinalAnswer ==
    pc = "Done" =>
       /\ response.stop_reason = "end_turn"
       /\ result = Return(Join(TextsOf(response.content), ""))

\* The final response holds two TextBlocks around a block that is not text.
C4_Witness ==
    /\ pc = "Done"
    /\ Len(TextsOf(response.content)) = 2
    /\ Len(response.content) = 3
    /\ result = Return("Done.")

\* C5: a run that ended in Done after k tool_use responses (k assistant turns)
\* made k+1 adapter calls in k+1 iterations and k tool rounds, with
\* k < max_iterations, and returned the text of the end_turn response.
C5_DoneAfterK ==
    pc = "Done" =>
       LET k == Cardinality(AssistantTurns)
       IN  /\ k < max_iterations
           /\ iteration = k + 1
           /\ adapterCalls = k + 1
           /\ adapterReturns = k + 1
           /\ Cardinality(ResultTurns) = k
           /\ Len(messages) = 2 * k + 1
           /\ toolReturns = TotalToolUses
           /\ response.stop_reason = "end_turn"
           /\ result = Return(Join(TextsOf(response.content), ""))

\* The run ends in Done on the last iteration the ceiling permits, with the
\* answer of the scenario.
C5_Witness ==
    /\ pc = "Done"
    /\ Cardinality(AssistantTurns) = max_iterations - 1
    /\ result = Return("Found 2 files.")

\* C6: once an adapter call has returned a stop reason that is neither end_turn
\* nor tool_use, the run is Aborted with a diagnostic that contains that value;
\* the response is not in the conversation, no tool was dispatched for it and
\* no adapter call follows it.
C6_Aborted ==
    response.stop_reason \notin {"", "end_turn", "tool_use"} =>
       /\ pc = "Aborted"
       /\ result.kind = "return"
       /\ Contains(result.value, response.stop_reason)
       /\ adapterCalls = Cardinality(AssistantTurns) + 1
       /\ adapterReturns = adapterCalls
       /\ Len(messages) = 2 * (adapterCalls - 1) + 1
       /\ toolCalls = TotalToolUses
       /\ toolReturns = toolCalls

\* After some tool rounds, a response cut by max_tokens that holds a tool
\* request aborts the run.
C6_Witness ==
    /\ pc = "Aborted"
    /\ response.stop_reason = "max_tokens"
    /\ ToolUseIdx(response.content) # <<>>
    /\ iteration > 1

\* C7: the dispatch of a ToolUseBlock whose name is not a registered tool does
\* not end the run: its result, the string "Unknown tool: <name>", is collected
\* under the block's id and name, and the loop goes on to the next block of the
\* turn or, the turn over, appends the results and returns to its test.
C7_UnknownTool ==
    [][(pc = "tool" /\ response.content[block].name \notin KnownTools) =>
          /\ pc' \in {"tool", "while"}
          /\ tool_results' =
                Append(tool_results,
                       [type |-> "tool_result",
                        tool_use_id |-> response.content[block].id,
                        tool_name |-> response.content[block].name,
                        content |-> "Unknown tool: " \o response.content[block].name])
          /\ pc' = "while" => messages' = Append(messages, Message("user", List(tool_results')))
      ]_vars

\* The next adapter call is in progress on a conversation that holds the
\* unknown-tool string as a tool result.
C7_Witness ==
    /\ pc = "chat"
    /\ \E m \in ResultTurns : \E j \in DOMAIN messages[m].content.v :
          /\ messages[m].content.v[j].content = "Unknown tool: make_coffee"
          /\ messages[m].content.v[j].tool_name = "make_coffee"

\* C8: whatever block is dispatched, the dispatch comes back with a string that
\* is collected as a tool result, and the run goes on.
C8_ToolErrorsNeverAbort ==
    [][pc = "tool" =>
          /\ pc' \in {"tool", "while"}
          /\ Len(tool_results') = Len(tool_results) + 1
          /\ tool_results'[Len(tool_results')].tool_use_id = response.content[block].id
      ]_vars

\* C9: once provider.chat has failed, the run has ended with that exception and
\* no answer; the failed call was the run's last adapter call (none is retried
\* or in progress) and every tool dispatched belongs to an earlier response.
C9_ChatFailureAborts ==
    ChatFailed =>
       /\ pc = "Raised"
       /\ result.kind = "raise"
       /\ adapterReturns = adapterCalls
       /\ adapterCalls = Cardinality(AssistantTurns) + 1
       /\ iteration = adapterCalls
       /\ toolCalls = TotalToolUses
       /\ toolReturns = toolCalls
       /\ TotalResults = TotalToolUses

\* After a tool round, the vendor sends tool-call arguments that are not JSON.
C9_Witness ==
    /\ pc = "Raised"
    /\ result = Raise("JSONDecodeError")
    /\ iteration > 1
    /\ toolCalls > 0

\* C10: at most one call is in progress; while an adapter call is in progress
\* every tool call of every earlier response has returned and its result is in
\* the conversation; while a tool call is in progress every adapter call has
\* returned and the block executed is a tool_use block of the response last
\* appended to the conversation.
C10_Sequential ==
    /\ adapterCalls - adapterReturns \in {0, 1}
    /\ toolCalls - toolReturns \in {0, 1}
    /\ ~(InAdapter /\ InTool)
    /\ InAdapter <=> pc = "chat"
    /\ InTool <=> pc = "tool"
    /\ InAdapter =>
         /\ toolReturns = TotalToolUses
         /\ TotalResults = TotalToolUses
         /\ messages[Len(messages)].role = "user"
    /\ InTool =>
         /\ adapterReturns = adapterCalls
         /\ messages[Len(messages)] = Message("assistant", List(response.content))
         /\ IsToolUse(response.content[block])
         /\ Len(tool_results) = toolReturns - (TotalToolUses - Len(ToolUseIdx(response.content)))

\* The second tool call of a response is in progress, in a later iteration.
C10_Witness ==
    /\ InTool
    /\ Len(tool_results) = 1
    /\ iteration > 1

\* The paths created by the call recorded in entry e.
Created(e) == DOMAIN e.after \ DOMAIN e.before

Sibling(path, k) ==
    PathParentPrefix(path) \o PathStem(path) \o ".new"
    \o (IF k = 1 THEN "" ELSE ToString(k)) \o PathSuffix(path)

Redirected(P) ==
    {i \in DOMAIN written :
        written[i].file_path = P /\ Exists(written[i].before, P)}

\* The number of the sibling a redirected call wrote (<stem>.new<ext> is the
\* first, tools.py:59 numbers the ones after it from 2).
Disambiguator(e) ==
    CHOOSE k \in 1 .. (Cardinality(DOMAIN e.before) + 1) :
        Sibling(e.file_path, k) = e.path

\* C13: the calls made on one occupied target wrote pairwise distinct paths,
\* none of which existed before its write, and each later call chose a greater
\* number than every earlier one.
C13_NeverCollides ==
    \A P \in WriteTargets :
        /\ \A i \in Redirected(P) : ~Exists(written[i].before, written[i].path)
        /\ \A i, j \in Redirected(P) :
               i < j =>
                   /\ written[i].path # written[j].path
                   /\ Disambiguator(written[i]) < Disambiguator(written[j])

\* Three calls on card.tsx, with card.new.tsx and card.new3.tsx occupied at
\* the start: they wrote card.new2.tsx, card.new4.tsx and card.new5.tsx.
C13_Witness ==
    /\ Redirected("proj/card.tsx") = {1, 2, 3}
    /\ written[1].path = "proj/card.new2.tsx"
    /\ written[2].path = "proj/card.new4.tsx"
    /\ written[3].path = "proj/card.new5.tsx"

\* The step is a return of provider.chat with a Chat Result.
ChatResultStep == pc = "chat" /\ pc' # "Raised"

\* C14: whatever the vendor replies, the stop_reason of the Chat Result that
\* chat() returns is end_turn or tool_use, for each of the three adapters.
C14_StopReasonEnum ==
    [][ChatResultStep => response'.stop_reason \in {"end_turn", "tool_use"}]_vars

\* The function calls of the parts of a Gemini reply, in order.
RECURSIVE GeminiRequests(_)
GeminiRequests(parts) ==
    IF parts = <<>> THEN <<>>
    ELSE (IF "function_call" \in DOMAIN Head(parts)
          THEN <<[name |-> Head(parts).function_call.name,
                  input |-> Head(parts).function_call.args]>>
          ELSE <<>>)
         \o GeminiRequests(Tail(parts))

\* The invocation requests of a vendor reply that chat() could decode, in order.
Requests(p, reply) ==
    CASE p = "openai" ->
           [i \in DOMAIN reply.tool_calls |->
               [name |-> reply.tool_calls[i].name,
                input |-> JsonLoads(reply.tool_calls[i].arguments).value]]
      [] p = "gemini" -> GeminiRequests(reply.parts)

\* The ToolUseBlocks of a content list, in order, as name and input.
Decoded(content) ==
    LET idx == ToolUseIdx(content)
    IN  [i \in 1 .. Len(idx) |->
            [name |-> content[idx[i]].name, input |-> content[idx[i]].input]]

\* C15: the translating adapters (OpenAI, Gemini) return tool_use exactly when
\* the vendor's reply holds an invocation request, and then the ToolUseBlocks
\* of the result are the requests of the reply, one for one and in order, also
\* for a request in a part that carries text; a reply without requests gives
\* end_turn and TextBlocks only.
C15_InboundClassification ==
    [][(ChatResultStep /\ provider \in {"openai", "gemini"}) =>
        LET reqs == Requests(provider, received')
            r == response'
        IN  IF reqs # <<>>
            THEN r.stop_reason = "tool_use" /\ Decoded(r.content) = reqs
            ELSE /\ r.stop_reason = "end_turn"
                 /\ \A i \in DOMAIN r.content : r.content[i].type = "text"]_vars

\* The step is a call of provider.chat, up to the request it sends.
ChatCallStep == pc = "while" /\ pc' = "chat"

\* C16: a call of chat(), whatever the adapter, leaves the history it is given
\* as it was: the same length and the same messages, in the same order, with
\* the same roles and contents.
C16_HistoryUnchanged ==
    [][ChatCallStep =>
        /\ Len(messages') = Len(messages)
        /\ \A n \in DOMAIN messages : messages'[n] = messages[n]]_vars

\* A translating adapter has built a request from a history that holds a tool
\* round with two results.
C16_Witness ==
    /\ pc = "chat"
    /\ provider = "openai"
    /\ Len(messages) = 3
    /\ Len(messages[3].content.v) = 2
    /\ Len(sent.messages) = 5

\* The types the Gemini adapter maps natively.
MappedTypes == {"string", "integer", "boolean"}

\* C17: in the declaration the Gemini adapter makes of a descriptor, every
\* property of the input schema is declared under its name, a property whose
\* type is not string, integer or boolean is declared as a string, and every
\* name listed as required is a declared property.
C17_SchemaDegradation ==
    pc = "converted" =>
        \A i \in DOMAIN tools :
            LET schema == tools[i].input_schema
                declared == sent.tools[1].function_declarations[i].parameters.properties
            IN  /\ \A n \in DOMAIN schema.properties :
                       /\ n \in DOMAIN declared
                       /\ ("type" \in DOMAIN schema.properties[n]
                           /\ schema.properties[n].type \notin MappedTypes)
                          => declared[n].type = "STRING"
                /\ "required" \in DOMAIN schema =>
                       \A k \in DOMAIN schema.required :
                           schema.required[k] \in DOMAIN declared

\* The tool-result blocks of the whole history, in order.
RECURSIVE FlatResults(_)
FlatResults(msgs) ==
    IF msgs = <<>> THEN <<>>
    ELSE (IF Head(msgs).role = "user" /\ Head(msgs).content.py = "list"
          THEN Head(msgs).content.v ELSE <<>>)
         \o FlatResults(Tail(msgs))

\* The function-response parts of the user contents of a Gemini request, in order.
RECURSIVE FlatResponses(_)
FlatResponses(contents) ==
    LET IsResponse(part) == "function_response" \in DOMAIN part
    IN  IF contents = <<>> THEN <<>>
        ELSE (IF Head(contents).role = "user"
              THEN SelectSeq(Head(contents).parts, IsResponse) ELSE <<>>)
             \o FlatResponses(Tail(contents))

\* The tool messages that follow position j of an OpenAI request directly.
ToolGroup(vm, j) ==
    LET end == CHOOSE k \in (j + 1) .. (Len(vm) + 1) :
                   /\ \A i \in (j + 1) .. (k - 1) : vm[i].role = "tool"
                   /\ k = Len(vm) + 1 \/ vm[k].role # "tool"
    IN  SubSeq(vm, j + 1, end - 1)

\* The OpenAI adapter's rendering of the results: the tool messages of the request are the
\* tool-result blocks of the history, one for one and in order, each with the
\* block's tool_use_id as tool_call_id and the block's content; and every tool
\* call of an assistant message has exactly one tool message with its id among
\* those that follow the assistant message.
OpenAIResultsRendered ==
    LET IsTool(m) == m.role = "tool"
        vm == sent.messages
        rendered == SelectSeq(vm, IsTool)
        blocks == FlatResults(messages)
    IN  /\ Len(rendered) = Len(blocks)
        /\ \A k \in DOMAIN blocks :
               /\ rendered[k].tool_call_id = blocks[k].tool_use_id
               /\ rendered[k].content = blocks[k].content
        /\ \A j \in DOMAIN vm :
               (vm[j].role = "assistant" /\ "tool_calls" \in DOMAIN vm[j]) =>
                   LET group == ToolGroup(vm, j)
                   IN  \A c \in DOMAIN vm[j].tool_calls :
                           Cardinality({g \in DOMAIN group :
                               group[g].tool_call_id = vm[j].tool_calls[c].id}) = 1

\* The Gemini adapter's rendering of the results: the function-response parts of the request are
\* the tool-result blocks of the history, one for one and in order, each named
\* with the block's tool name and holding its content; and the function calls
\* of a model content are answered, position by position and under the same
\* name, by the function responses of the content after it.
GeminiResultsRendered ==
    LET IsCall(part) == "function_call" \in DOMAIN part
        IsResponse(part) == "function_response" \in DOMAIN part
        vc == sent.contents
        rendered == FlatResponses(vc)
        blocks == FlatResults(messages)
    IN  /\ Len(rendered) = Len(blocks)
        /\ \A k \in DOMAIN blocks :
               /\ rendered[k].function_response.name = blocks[k].tool_name
               /\ rendered[k].function_response.response = [result |-> blocks[k].content]
        /\ \A j \in DOMAIN vc :
               LET calls == SelectSeq(vc[j].parts, IsCall)
               IN  (vc[j].role = "model" /\ calls # <<>>) =>
                       /\ j < Len(vc)
                       /\ vc[j + 1].role = "user"
                       /\ LET answers == SelectSeq(vc[j + 1].parts, IsResponse)
                          IN  /\ Len(answers) = Len(calls)
                              /\ \A c \in DOMAIN calls :
                                     answers[c].function_response.name
                                         = calls[c].function_call.name

\* C19: in every request a translating adapter builds, the tool results of
\* the history are rendered one for one, in order and correlated (by call id
\* for OpenAI, by tool name for Gemini), and every tool call rendered has
\* exactly one matching rendered result.
C19_OutboundResults ==
    pc = "chat" =>
        /\ provider = "openai" => OpenAIResultsRendered
        /\ provider = "gemini" => GeminiResultsRendered

\* A request was built from a history that holds a routine round and a round
\* with two results after it.
C19_Witness ==
    /\ pc = "chat"
    /\ provider \in {"openai", "gemini"}
    /\ Len(messages) = 5
    /\ Len(FlatResults(messages)) = 3

\* C20: every step of a run leaves the conversation it found as a prefix of
\* the conversation it leaves: no message is removed or moved, and none has its
\* role or content changed.
C20_AppendOnly ==
    [][/\ Len(messages) <= Len(messages')
       /\ \A n \in DOMAIN messages : messages'[n] = messages[n]]_vars

\* A run went through all its iterations: the seed and fifteen rounds were
\* appended.
C20_Witness ==
    /\ pc = "Exhausted"
    /\ Len(messages) = 2 * max_iterations + 1

\* What a run shows of the loop: its position, its conversation, its counters,
\* the Chat Result it works on, the dispatches made and the outcome.  The
\* adapter, the vendor's reply and the request sent to the vendor are not part
\* of it.
LoopView ==
    [pc |-> pc, fs |-> fs, messages |-> messages, iteration |-> iteration,
     response |-> response, block |-> block, tool_results |-> tool_results,
     result |-> result, adapterCalls |-> adapterCalls,
     adapterReturns |-> adapterReturns, toolCalls |-> toolCalls,
     toolReturns |-> toolReturns]

\* The loop's step from view v when chat() comes back with the Chat Result r.
AfterChatResult(v, r) ==
    LET to == Branch(r.stop_reason)
        first == NextToolUse(r.content, 0)
        said == AppendMessage(v.messages, Message("assistant", List(r.content)))
        w == [v EXCEPT !.response = r, !.adapterReturns = @ + 1]
    IN  IF to = "Done"
        THEN [w EXCEPT !.pc = "Done", !.result = Return(FinalText(r.content))]
        ELSE IF to = "Aborted"
        THEN [w EXCEPT !.pc = "Aborted", !.result = Return(AbortMessage(r.stop_reason))]
        ELSE IF first = 0
        THEN [w EXCEPT !.pc = "while", !.tool_results = <<>>, !.block = 0,
                       !.messages = AppendMessage(said, Message("user", List(<<>>)))]
        ELSE [w EXCEPT !.pc = "tool", !.tool_results = <<>>, !.block = first,
                       !.messages = said, !.toolCalls = @ + 1]

\* The loop's step from view v when the dispatched tool comes back.
AfterTool(v) ==
    LET b == v.response.content[v.block]
        out == execute_tool(v.fs, b.name, b.input)
        next == NextToolUse(v.response.content, v.block)
        collected == Collect(v.tool_results, ToolResult(b, out.value))
        w == [v EXCEPT !.toolReturns = @ + 1]
    IN  IF IsRaise(out)
        THEN [w EXCEPT !.pc = OnToolRaise, !.result = out]
        ELSE IF next = 0
        THEN [w EXCEPT !.pc = "while", !.block = 0, !.tool_results = collected,
                       !.fs = execute_tool_fs(v.fs, b.name, b.input),
                       !.messages = AppendMessage(v.messages,
                                                  Message("user", List(collected)))]
        ELSE [w EXCEPT !.pc = "tool", !.block = next, !.tool_results = collected,
                       !.fs = execute_tool_fs(v.fs, b.name, b.input),
                       !.toolCalls = @ + 1]

\* The loop's step from view v, given what chat() does when it is the call
\* awaited (event: the Chat Result returned, or the exception raised).  The
\* adapter bound to the run is not an argument.
LoopStep(v, event) ==
    IF v.pc = "while"
    THEN IF v.iteration < max_iterations
         THEN [v EXCEPT !.pc = "chat", !.iteration = @ + 1, !.adapterCalls = @ + 1]
         ELSE [v EXCEPT !.pc = "Exhausted", !.result = Return(ExhaustedMessage)]
    ELSE IF v.pc = "chat"
    THEN IF IsRaise(event)
         THEN [v EXCEPT !.pc = OnChatRaise, !.result = event, !.adapterReturns = @ + 1]
         ELSE AfterChatResult(v, event.value)
    ELSE IF v.pc = "tool"
    THEN AfterTool(v)
    ELSE v

\* C18: the loop's step is a function of the loop's own state and of the
\* normalized outcome of chat() alone, the same function for the three
\* adapters: runs with different adapters that start from the same task and
\* get the same Chat Results go through the same transitions, dispatches and
\* conversations, and end with the same outcome.
C18_Substitutability ==
    [][LET event == IF pc = "chat" /\ pc' # "Raised" THEN Return(response')
                    ELSE result'
       IN  LoopView' = LoopStep(LoopView, event)]_vars

\* A run with the Gemini adapter and a run with the OpenAI adapter each went
\* through a round of two tools and a routine round and gave the final text.
C18_Witness ==
    /\ provider \in {"gemini", "openai"}
    /\ pc = "Done"
    /\ Len(messages) = 5
    /\ toolReturns = 3
    /\ result = Return("Found 2 files.")

\* The step in which run_agent makes the first adapter call of a run.
FirstChatCallStep == pc = "while" /\ iteration = 0 /\ pc' = "chat"

\* C21: the history passed to the first adapter call of a run is exactly one
\* user-role message made of the project directory and the task of that run,
\* however many runs the process made before it with the same adapter; no
\* message of an earlier run is in it.
C21_FreshSeed ==
    [][FirstChatCallStep =>
         /\ Len(messages) = 1
         /\ messages[1].role = "user"
         /\ messages[1].content =
                Str("Project directory: " \o ProjectPath \o "\n\nTask: " \o task)
         /\ messages' = messages]_vars

\* The first adapter call of the second run of an interactive session is out,
\* after a first run that had a tool-use turn.
C21_Witness ==
    /\ pc = "chat"
    /\ iteration = 1
    /\ task = SecondTask
    /\ stdin = <<"Quit">>
    /\ varied > 0

\* C22: a provider name that is not anthropic, openai or gemini makes the
\* construction of the provider raise; the process ends there, with no
\* adapter call and no tool call of any run made, and nothing is tried again.
C22_FailFast ==
    [][argv.provider \notin {"anthropic", "openai", "gemini"} =>
         /\ pc # "ConfigError"
         /\ pc = "get_provider" => pc' = "ConfigError" /\ result' = Raise("ValueError")
         /\ pc' \in {"get_provider", "ConfigError"}
         /\ adapterCalls' = 0 /\ toolCalls' = 0
         /\ provider' = "None" /\ messages' = <<>>]_vars

\* get_provider raised on the unknown name.
C22_Witness ==
    /\ pc = "ConfigError"
    /\ argv.provider = "mistral"
    /\ result = Raise("ValueError")
    /\ adapterCalls = 0

\* C23: when a run was cancelled, every assistant tool-use message of its
\* conversation is followed by a tool-results message, and that message holds
\* a result for each request of the turn.
C23_NoPartialTurn ==
    pc = "Cancelled" =>
        \A n \in AssistantTurns :
            /\ n + 1 \in ResultTurns
            /\ Len(messages[n + 1].content.v) = Len(UsesOf(n))

\* A run cancelled at an iteration boundary, after a complete turn.
CancelledAtBoundary ==
    /\ pc = "Cancelled"
    /\ AssistantTurns # {}
    /\ messages[Len(messages)].role = "user"

\* The tool request of the turn and, once the tool returned, its result.
Requested == response.content[1]

Delivered == tool_results[1].content

\* The files list_files finds for a request, before it sorts and cuts.
FoundFor(b) ==
    {p \in DOMAIN fs :
        /\ Under(p, b.input.directory)
        /\ ~Skipped(p)
        /\ ("extension" \in DOMAIN b.input => PathSuffix(p) = b.input.extension)}

\* The content under a request is larger than what the tool returns of it.
WasCut(b) ==
    CASE b.name = "read_file" ->
            /\ b.input.file_path \in DOMAIN fs
            /\ Len(fs[b.input.file_path]) > ReadFileCap
      [] b.name = "fetch_url" ->
            /\ b.input.url \in DOMAIN Pages
            /\ Len(Pages[b.input.url]) > FetchUrlCap
      [] b.name = "list_files" -> Cardinality(FoundFor(b)) > ListFilesCap
      [] b.name = "search_web" ->
            /\ b.input.query \in DOMAIN SearchHits
            /\ Len(SearchHits[b.input.query]) > SearchResultsCap
      [] OTHER -> FALSE

\* The marker of a cut result.
TruncationMarker == "\n\n... [truncated]"

\* The cap of each tool's result: the two the claim names, and for the other
\* tools the larger of the two.
ResultCap(name) ==
    IF name = "fetch_url" THEN FetchUrlCap + Len(TruncationMarker)
    ELSE ReadFileCap + Len(TruncationMarker)

\* The results of read_file and fetch_url keep to their caps and carry the
\* marker when cut.
ReadAndFetchBounded ==
    (pc = "while" /\ Len(tool_results) = 1
        /\ Requested.name \in {"read_file", "fetch_url"}) =>
        /\ Len(Delivered) <= ResultCap(Requested.name)
        /\ WasCut(Requested) => Contains(Delivered, "[truncated]")

\* C24: the result of every tool is a string no longer than the tool's cap,
\* whatever the size of the content under it, and a result that was cut
\* carries the truncation marker.
C24_BoundedResults ==
    (pc = "while" /\ Len(tool_results) = 1) =>
        /\ WasCut(Requested) => Contains(Delivered, "[truncated]")
        /\ Len(Delivered) <= ResultCap(Requested.name)

\* The length alone, for every tool.
ResultsWithinCap ==
    (pc = "while" /\ Len(tool_results) = 1) =>
        Len(Delivered) <= ResultCap(Requested.name)

\* read_file returned the first 10000 characters of a longer file, and the
\* marker.
ReadFileCut ==
    /\ pc = "while"
    /\ Len(tool_results) = 1
    /\ Requested.name = "read_file"
    /\ Len(Delivered) = ReadFileCap + Len(TruncationMarker)

\* C25: on a tool_use response the whole content of the response, in its
\* order, is appended as one assistant message when the first tool of the turn
\* is called; nothing is appended while the tools of the turn run; when the
\* last of them returned, the results of all the requests of the turn are
\* appended as one user message.
C25_TurnRecording ==
    [][/\ (pc = "chat" /\ pc' = "tool") =>
            /\ response'.stop_reason = "tool_use"
            /\ messages' = Append(messages, Message("assistant", List(response'.content)))
            /\ provider = "anthropic" => response'.content = received'.content
            /\ toolCalls' = toolCalls + 1 /\ toolReturns' = toolReturns
       /\ (pc = "tool" /\ pc' \in {"tool", "Raised"}) => messages' = messages
       /\ (pc = "tool" /\ pc' = "while") =>
            /\ NextToolUse(response.content, block) = 0
            /\ toolCalls' = toolCalls /\ toolReturns' = toolCalls
            /\ Len(tool_results') = Len(ToolUseIdx(response.content))
            /\ messages' = Append(messages, Message("user", List(tool_results')))
            /\ messages[Len(messages)] = Message("assistant", List(response.content))]_vars

\* A turn of text and two requests is recorded: the assistant message with
\* its three blocks, then one user message with the two results.
C25_Witness ==
    /\ pc = "while"
    /\ Len(messages) = 3
    /\ Len(messages[2].content.v) = 3
    /\ Len(messages[3].content.v) = 2

\* The tools of a turn are called in the order of the response, one after
\* the return of the other, and none twice: a call goes to the first tool_use
\* block after the one called before it.
DispatchInOrder ==
    [][/\ (pc = "chat" /\ pc' = "tool") =>
            /\ IsToolUse(response'.content[block'])
            /\ \A k \in 1 .. block' - 1 : ~IsToolUse(response'.content[k])
       /\ (pc = "tool" /\ pc' = "tool") =>
            /\ response' = response
            /\ block' > block
            /\ IsToolUse(response.content[block'])
            /\ \A k \in block + 1 .. block' - 1 : ~IsToolUse(response.content[k])
            /\ toolReturns' = toolCalls
            /\ toolCalls' = toolCalls + 1
       /\ pc' \notin {"tool", "Raised"} => toolCalls' = TotalToolUses']_vars

\* C26: the tools of a turn are called in the order of the ToolUseBlocks of
\* the response, the call for a block starting after the call for every
\* earlier block returned, and each ToolUseBlock of a response is called
\* exactly once: whenever no turn is under way there were as many calls as
\* the conversation holds ToolUseBlocks.
C26_DispatchOrder ==
    [][/\ (pc = "chat" /\ pc' = "tool") =>
            /\ IsToolUse(response'.content[block'])
            /\ \A k \in 1 .. block' - 1 : ~IsToolUse(response'.content[k])
       /\ (pc = "tool" /\ pc' = "tool") =>
            /\ response' = response
            /\ block' > block
            /\ IsToolUse(response.content[block'])
            /\ \A k \in block + 1 .. block' - 1 : ~IsToolUse(response.content[k])
            /\ toolReturns' = toolCalls
            /\ toolCalls' = toolCalls + 1
       /\ pc' # "tool" => toolCalls' = TotalToolUses']_vars

\* A turn of two requests was recorded with both tools called, the second
\* after the first.
BothDispatched ==
    /\ pc = "while"
    /\ Len(messages) = 3
    /\ Len(UsesOf(2)) = 2
    /\ toolCalls = 2
    /\ toolReturns = 2

\* C27: whenever an adapter call is under way, the history it was given is
\* not empty, starts with the user message that seeds the run, ends with a
\* user message, alternates user, assistant, user, ..., and has after every
\* assistant message a user message of tool results.
C27_AdapterPrecondition ==
    pc = "chat" =>
        /\ Len(messages) >= 1
        /\ messages[1] =
              Message("user", Str("Project directory: " \o ProjectPath
                                  \o "\n\nTask: " \o task))
        /\ messages[Len(messages)].role = "user"
        /\ \A n \in DOMAIN messages :
              messages[n].role = IF n % 2 = 1 THEN "user" ELSE "assistant"
        /\ \A n \in AssistantTurns : n + 1 \in ResultTurns
        /\ Len(messages) = 2 * iteration - 1

\* The third adapter call of a run is under way, on a history of five
\* messages.
C27_Witness ==
    /\ pc = "chat"
    /\ iteration = 3
    /\ Len(messages) = 5
    /\ messages[4].role = "assistant"
    /\ messages[5].content.py = "list"

\* C28: when chat() returns a response whose stop_reason is not tool_use
\* (end_turn or a value the loop does not know), the conversation stays as it
\* was, no tool is called and the filesystem is untouched, whether or not the
\* content holds ToolUseBlocks; the run is over and nothing changes after it.
C28_OnlyToolUseActs ==
    [][/\ (ChatResultStep /\ response'.stop_reason # "tool_use") =>
            /\ messages' = messages
            /\ toolCalls' = toolCalls
            /\ tool_results' = tool_results
            /\ fs' = fs
            /\ pc' = IF response'.stop_reason = "end_turn" THEN "Done" ELSE "Aborted"
       /\ pc \notin {"Done", "Aborted"}]_vars

\* A response that stopped for a reason the loop does not know and holds a
\* ToolUseBlock ended the run after one complete turn: no further tool was
\* called and the conversation has the three messages it had at the call.
C28_Witness ==
    /\ pc = "Aborted"
    /\ \E k \in DOMAIN response.content : IsToolUse(response.content[k])
    /\ iteration = 2
    /\ toolCalls = 1
    /\ Len(messages) = 3

\* An end_turn response holding a ToolUseBlock ended the run.
DoneWithToolUse ==
    /\ pc = "Done"
    /\ \E k \in DOMAIN response.content : IsToolUse(response.content[k])
    /\ toolCalls = 0
    /\ Len(messages) = 1

\* C29: the counter is the number of adapter calls made so far and is never
\* above max_iterations; the run is Exhausted only after max_iterations calls
\* that all returned a tool_use response; an end_turn response to the last
\* permitted call makes the run Done, with its text as the result.
C29_IterationCounter ==
    [][/\ iteration' = adapterCalls'
       /\ iteration' <= max_iterations
       /\ ChatCallStep => iteration' = iteration + 1 /\ iteration < max_iterations
       /\ ~ChatCallStep => iteration' = iteration
       /\ pc' = "Exhausted" =>
            /\ adapterCalls' = max_iterations
            /\ adapterReturns' = max_iterations
            /\ Cardinality(AssistantTurns) = max_iterations
            /\ result' = Return("Agent reached maximum iterations without completing.")
       /\ (ChatResultStep /\ iteration = max_iterations
             /\ response'.stop_reason = "end_turn") =>
            /\ pc' = "Done"
            /\ result'.kind = "return"
            /\ result'.value # "Agent reached maximum iterations without completing."]_vars

\* The last permitted call returned end_turn and the run is Done.
C29_Witness ==
    /\ pc = "Done"
    /\ adapterCalls = max_iterations
    /\ iteration = max_iterations
    /\ adapterReturns = max_iterations

\* The run is Exhausted, after max_iterations calls.
ExhaustedAtCeiling ==
    /\ pc = "Exhausted"
    /\ adapterCalls = max_iterations

\* The step that appends the tool results of a turn and comes back to the
\* loop test.
ResultsAppendedStep == pc \in {"chat", "tool"} /\ pc' = "while"

\* The results appended on a pass other than the last permitted one reach
\* the adapter: the next step of the run is a call of chat() on the whole
\* conversation.
DeliveredBeforeCeiling ==
    [][/\ (ResultsAppendedStep /\ iteration < max_iterations) =>
            /\ Len(messages') \in ResultTurns'
            /\ iteration' < max_iterations
       /\ (pc = "while" /\ iteration < max_iterations /\ pc' # "while") =>
            /\ pc' = "chat"
            /\ sent' = Request(provider, messages, SYSTEM_PROMPT, tools)
            /\ provider = "anthropic" => sent'.messages = messages]_vars

\* C30: once the tool results of a turn are appended, the run goes on to a
\* call of chat() whose history holds them: the loop test passes after every
\* append, and the step after it is that call, made on the whole
\* conversation; so it is on the last permitted pass too.
C30_ResultsDelivered ==
    [][/\ ResultsAppendedStep =>
            /\ Len(messages') \in ResultTurns'
            /\ iteration' < max_iterations
       /\ (pc = "while" /\ pc' # "while") =>
            /\ pc' = "chat"
            /\ sent' = Request(provider, messages, SYSTEM_PROMPT, tools)
            /\ provider = "anthropic" => sent'.messages = messages]_vars

\* The tools of the last permitted pass wrote a file, and the run is
\* Exhausted with their results in the conversation but in no request.
LastResultsUndelivered ==
    /\ pc = "Exhausted"
    /\ provider = "anthropic"
    /\ Len(messages) = Len(sent.messages) + 2
    /\ fs # InitialFiles

====
